---- MODULE Spec2Model ----
(***************************************************************************)
(* Model of the Grohe smarthome adapter: the token lifecycle manager       *)
(* (GroheApi, in its four source variants) and the session orchestrator    *)
(* (GroheSmarthome.onReady / pollDevices / onStateChange).                 *)
(*                                                                         *)
(* Scheduling follows Node's event loop: a handler runs without            *)
(* interruption until it awaits network or object-store I/O.  `running`    *)
(* names the task that holds the loop; an I/O completion hands it over.    *)
(* Host state writes (setState) are taken to succeed and are applied in    *)
(* program order inside the step that issues them.                         *)
(***************************************************************************)
EXTENDS Integers, Sequences, FiniteSets, TLC

(***************************************************************************)
(* Bounds of the model.                                                    *)
(***************************************************************************)
NumAccessToks == 2      \* distinct access tokens the identity provider issues
NumRefreshToks == 2     \* distinct refresh tokens the identity provider issues
MaxEvents == 1          \* timer ticks and state changes delivered to the adapter
MaxPolls == 2           \* timer ticks delivered when no state change is

(***************************************************************************)
(* JavaScript values.  A string is a sequence of symbols; "_" is a         *)
(* whitespace character, "." the JWT segment separator.                    *)
(***************************************************************************)
Null == <<"null">>
Undef == <<"undefined">>
None == "none"

Truthy(v) == v # Null /\ v # Undef /\ v # <<>>

IsWs(c) == c = "_"

\* String(token || '').replace(/\s+/g, '')
Strip(v) == IF Truthy(v) THEN SelectSeq(v, LAMBDA c : ~IsWs(c)) ELSE <<>>

\* String(x): the text a template literal or String() yields for x
Str(v) == v

AccessSyms == SubSeq(<<"a", "b", "c", "d">>, 1, NumAccessToks)
RefreshSyms == SubSeq(<<"r", "s", "t", "u">>, 1, NumRefreshToks)
Range(s) == {s[i] : i \in 1..Len(s)}

\* a JWT-shaped token: header segment, separator, payload segment
Jwt(x) == <<"h", ".", x>>

RECURSIVE SplitDot(_)
\* s.split('.'): the sequence of segments of s
SplitDot(s) ==
    IF \A i \in 1..Len(s) : s[i] # "."
    THEN <<s>>
    ELSE LET k == CHOOSE i \in 1..Len(s) : s[i] = "." /\ \A j \in 1..(i-1) : s[j] # "."
         IN <<SubSeq(s, 1, k-1)>> \o SplitDot(SubSeq(s, k+1, Len(s)))

\* JSON.parse(Buffer.from(seg, 'base64url').toString('utf8')): the claims of a
\* payload segment.  A segment issued by the identity provider carries iss;
\* "n" decodes to claims without iss; any other segment is not JSON.
DecodePayload(seg) ==
    IF seg # <<>> /\ seg[1] \in Range(RefreshSyms) THEN "iss"
    ELSE IF seg = <<"n">> THEN "noiss"
    ELSE "throws"

(***************************************************************************)
(* Token universes.                                                        *)
(***************************************************************************)
AccessToks == {<<x>> : x \in Range(AccessSyms)}

\* refresh tokens the identity provider issues in the deployment of variant v
\* (issued tokens carry no whitespace; a token pasted into the configuration may)
IssuedRefresh(v) ==
    IF v = "claims"
    THEN {Jwt(x) : x \in Range(RefreshSyms)}
    ELSE {<<x>> : x \in Range(RefreshSyms)}

\* refresh tokens a user may have stored in the configuration
StoredRefresh(v) ==
    IF v = "claims"
    THEN {Jwt(RefreshSyms[1]), Jwt(RefreshSyms[1]) \o <<"_">>,
          <<RefreshSyms[1]>>, Jwt("n"), Jwt("x")}
    ELSE {<<RefreshSyms[1]>>, <<RefreshSyms[1], "_">>}

Variants == {"static", "plain", "claims", "legacy"}

ErrorCodes == {"NO_REFRESH_TOKEN", "TOKEN_FORMAT_INVALID", "NO_ISSUER",
               "TOKEN_RESPONSE_INVALID", "INVALID_REFRESH_TOKEN",
               "TOKEN_REFRESH_FAILED"}

\* HTTP statuses the endpoints answer with; 0 stands for no response at all
\* (timeout, connection error)
RefreshStatuses == {200, 400, 401, 500, 0}
ApiStatuses == {200, 401, 500, 0}

\* the error axios raises for a non-2xx status or a missing response
HttpError(status) ==
    CASE status = 0 -> "NETWORK"
      [] status = 400 -> "HTTP_400"
      [] status = 401 -> "HTTP_401"
      [] OTHER -> "HTTP_500"

Tasks == {"ready", "poll", "write", "client"}

VARIABLES
    variant,        \* which GroheApi source variant ./lib/api is
    orch,           \* which orchestrator main.js is: "full" | "rtonly" | "none"
    running,        \* the task holding the event loop, or None
    apiSet,         \* this.api is non-null
    accessToken,    \* GroheApi.accessToken
    refreshToken,   \* GroheApi.refreshToken
    config,         \* this.config, loaded once at start
    native,         \* the persisted configuration (system.adapter.<ns>.native)
    info,           \* the info.* states of the host
    pollTimer,      \* this.pollTimer is set
    tokenInvalid,   \* this.tokenInvalid (refresh-token-only orchestrator)
    task,           \* per task: position, call frames, observations
    lastGrant,      \* observation: the last token grant (refresh or login)
    fired,          \* observation: timer ticks and state changes delivered so far
    ver,            \* which GroheLogin source lib/login is: "current" | "older" | "none"
    removeAll,      \* the CookieJar class has removeAllCookiesSync
    lpc,            \* position of the login() call
    attempt,        \* login(): let attempt
    safety,         \* login(): let safety
    resp,           \* login(): let resp, the response under examination
    jar,            \* GroheLogin.jar: the identity of the CookieJar object
    clientJar,      \* client.defaults.jar: the jar the HTTP client uses
    cookies,        \* per CookieJar object: the attempts whose cookies it holds
    exTry,          \* _exchangeCodeForTokens: the strategy in flight (1, 2, 3)
    lret,           \* what login() returned or threw
    obs             \* observations of the login() call

loginVars == <<ver, removeAll, lpc, attempt, safety, resp, jar, clientJar, cookies,
               exTry, lret, obs>>

vars == <<variant, orch, running, apiSet, accessToken, refreshToken, config,
          native, info, pollTimer, tokenInvalid, task, lastGrant, fired, loginVars>>

adapterVars == <<variant, orch, running, apiSet, accessToken, refreshToken, config,
                 native, info, pollTimer, tokenInvalid, task, lastGrant, fired>>

apiVars == <<accessToken, refreshToken>>
hostVars == <<apiSet, config, native, info, pollTimer, tokenInvalid, fired>>

NoGrant == [by |-> "none", tok |-> Null]

\* no payload: every key absent
NoPay == [email |-> Undef, password |-> Undef, refreshToken |-> Undef,
          keepPassword |-> FALSE]

IdleTask ==
    [pc |-> "idle",
     retry |-> TRUE, retry0 |-> TRUE, hdr |-> Undef,
     rqRet |-> "idle", rqErr |-> "idle",
     rt |-> Undef, held |-> Undef, rfRet |-> "idle", rfErr |-> "idle",
     rfStatus |-> -1, rfAccess |-> Undef, rfRefresh |-> Undef,
     ret |-> Undef, err |-> "",
     pdRet |-> "idle",
     nReq |-> 0, nRf |-> 0, nRf401 |-> 0, first401 |-> FALSE, retry401 |-> FALSE,
     lastStatus |-> -1, hdr1 |-> Undef, sendGrant |-> NoGrant,
     rf401ok |-> FALSE, at0 |-> Undef, rt0 |-> Undef,
     pre |-> <<Undef, Undef>>, ev |-> None,
     wRet |-> "idle", wErr |-> "idle", pay |-> NoPay, before |-> Undef,
     login |-> <<Undef, Undef>>, nLogin |-> 0, nPoll |-> 0,
     s1 |-> "none", s1ret |-> Undef,
     rotated |-> FALSE, kind |-> None, val |-> FALSE,
     acked |-> FALSE, reset |-> FALSE,
     nW |-> 0, inv |-> Undef, prev |-> ""]

\* the history of a call is observed for calls of the standalone client; the
\* frames of the adapter's handlers carry the program's own values only
Observed(t, r) ==
    IF t = "client" THEN r
    ELSE [r EXCEPT !.held = Undef, !.rfStatus = -1, !.rfAccess = Undef,
                   !.rfRefresh = Undef, !.nRf = 0, !.nRf401 = 0,
                   !.first401 = FALSE, !.retry401 = FALSE, !.lastStatus = -1,
                   !.hdr = Undef, !.hdr1 = Undef, !.sendGrant = NoGrant, !.rf401ok = FALSE,
                   !.at0 = Undef, !.rt0 = Undef, !.pre = <<Undef, Undef>>,
                   !.retry0 = TRUE]

Upd(t, r) == task' = [task EXCEPT ![t] = Observed(t, r)]

(***************************************************************************)
(* GroheApi.setRefreshToken / setAccessToken                               *)
(***************************************************************************)
\* the value setRefreshToken(token) stores
SetRefreshTokenValue(v, token) ==
    IF v = "plain" THEN token ELSE Strip(token)

\* the value setAccessToken(token) stores
SetAccessTokenValue(token) == Strip(token)

(***************************************************************************)
(* GroheApi.refresh                                                        *)
(***************************************************************************)
\* the token refresh() sends: rt, or this.refreshToken as it is
RefreshSendToken(v, held) ==
    IF v \in {"static", "claims"} THEN Strip(held) ELSE held

\* what refresh() throws before any request is sent, "" if nothing
RefreshPrecheck_NoCheck(v, held) == ""

RefreshPrecheck(v, held) ==
    IF v = "legacy" THEN ""
    ELSE IF ~Truthy(held) THEN "NO_REFRESH_TOKEN"
    ELSE IF v = "claims"
         THEN LET parts == SplitDot(Strip(held))
              IN IF Len(parts) < 2 THEN "TOKEN_FORMAT_INVALID"
                 ELSE IF DecodePayload(parts[2]) = "throws" THEN "SyntaxError"
                 ELSE IF DecodePayload(parts[2]) = "noiss" THEN "NO_ISSUER"
                 ELSE ""
    ELSE ""

\* mutant: only 401 is taken for an invalid refresh token
RefreshError_Only401(v, status, at) ==
    IF v = "legacy"
    THEN IF status = 200 THEN "" ELSE HttpError(status)
    ELSE IF status = 200
         THEN IF ~Truthy(at) THEN "TOKEN_REFRESH_FAILED" ELSE ""
         ELSE IF status = 401 THEN "INVALID_REFRESH_TOKEN"
         ELSE "TOKEN_REFRESH_FAILED"

\* what refresh() throws for a response, "" if it succeeds
RefreshError(v, status, at) ==
    IF v = "legacy"
    THEN IF status = 200 THEN "" ELSE HttpError(status)
    ELSE IF status = 200
         \* the TOKEN_RESPONSE_INVALID error is thrown inside the try block and
         \* is caught by the catch clause below it, which rethrows by status
         THEN IF ~Truthy(at) THEN "TOKEN_REFRESH_FAILED" ELSE ""
         ELSE IF status \in {400, 401} THEN "INVALID_REFRESH_TOKEN"
         ELSE "TOKEN_REFRESH_FAILED"

\* this.accessToken after a successful refresh
RefreshedAccess(v, at) == Str(at)

\* mutant: the stored refresh token is overwritten even when none is returned
RefreshedRefresh_Overwrite(v, cur, rt, rtk) ==
    IF v = "plain" THEN rtk ELSE Strip(rtk)

\* this.refreshToken after a successful refresh
RefreshedRefresh(v, cur, rt, rtk) ==
    CASE v = "legacy" -> rtk
      [] v = "plain" -> IF Truthy(rtk) THEN rtk ELSE cur
      [] OTHER -> IF Truthy(rtk) THEN Strip(rtk) ELSE rt

\* refresh(), entered: the checks before the request, then the POST
RfEntry(t) ==
    /\ running = t
    /\ task[t].pc = "rf_entry"
    /\ LET f == task[t]
           e == RefreshPrecheck(variant, refreshToken)
       IN IF e # ""
          THEN /\ Upd(t, [f EXCEPT !.pc = f.rfErr, !.err = e, !.held = refreshToken,
                                   !.rfStatus = -1])
               /\ running' = running
          ELSE /\ Upd(t, [f EXCEPT !.pc = "rf_wait", !.held = refreshToken,
                                   !.rt = RefreshSendToken(variant, refreshToken),
                                   !.rfStatus = -1])
               /\ running' = None
    /\ UNCHANGED <<loginVars, variant, orch, apiVars, hostVars, lastGrant>>

\* the refresh endpoint answers
RfRespond(t) ==
    /\ running = None
    /\ task[t].pc = "rf_wait"
    /\ \E status \in RefreshStatuses :
       \E at \in {Undef} \cup AccessToks :
       \E rtk \in {Undef} \cup IssuedRefresh(variant) :
          /\ status # 200 => (at = Undef /\ rtk = Undef)
          /\ LET f == task[t]
                 e == RefreshError(variant, status, at)
                 g == [f EXCEPT !.rfStatus = status, !.rfAccess = at, !.rfRefresh = rtk,
                                !.pre = <<accessToken, refreshToken>>]
             IN IF e # ""
                THEN /\ Upd(t, [g EXCEPT !.pc = f.rfErr, !.err = e,
                                         !.inv = IF e = "INVALID_REFRESH_TOKEN"
                                                 THEN f.rt ELSE f.inv])
                     /\ UNCHANGED <<apiVars, lastGrant>>
                ELSE /\ accessToken' = RefreshedAccess(variant, at)
                     /\ refreshToken' = RefreshedRefresh(variant, refreshToken, f.rt, rtk)
                     /\ lastGrant' = [by |-> "refresh", tok |-> at]
                     /\ Upd(t, [g EXCEPT !.pc = f.rfRet,
                                         !.rotated = f.rotated \/
                                             RefreshedRefresh(variant, refreshToken, f.rt, rtk)
                                                 # refreshToken,
                                         !.rf401ok = f.rf401ok \/ f.rfRet = "rq_retry",
                                         !.ret = RefreshedRefresh(variant, refreshToken, f.rt, rtk)])
    /\ running' = t
    /\ UNCHANGED <<loginVars, variant, orch, hostVars>>

(***************************************************************************)
(* GroheApi.request                                                        *)
(***************************************************************************)
\* mutant: request() refreshes before every call
NeedsTokenFirst_Always(v, at) == v # "legacy"

\* request(config, retry) refreshes first when no access token is held
NeedsTokenFirst(v, at) == v # "legacy" /\ ~Truthy(at)

\* mutant: the retry reuses the header built for the first request
AuthHeader_Stale(f, at) == IF f.nReq = 0 THEN Str(at) ELSE f.hdr

\* the Authorization header request() attaches (the text after "Bearer ")
AuthHeader(f, at) == Str(at)

\* mutant: the retry flag is not looked at
RetriesOn_Always(status, retry) == status = 401

\* request() answers a failed call with a refresh and a retry
RetriesOn(status, retry) == status = 401 /\ retry

RqEntry(t) ==
    /\ running = t
    /\ task[t].pc = "rq_entry"
    /\ LET f == task[t]
       IN IF NeedsTokenFirst(variant, accessToken)
          THEN Upd(t, [f EXCEPT !.pc = "rf_entry", !.rfRet = "rq_attach",
                                !.rfErr = f.rqErr, !.nRf = f.nRf + 1])
          ELSE Upd(t, [f EXCEPT !.pc = "rq_attach"])
    /\ UNCHANGED <<loginVars, variant, orch, running, apiVars, hostVars, lastGrant>>

\* config.headers.Authorization is set and the request is sent
RqAttach(t) ==
    /\ running = t
    /\ task[t].pc = "rq_attach"
    /\ LET f == task[t]
           h == AuthHeader(f, accessToken)
       IN Upd(t, [f EXCEPT !.pc = "rq_wait", !.hdr = h, !.nReq = f.nReq + 1,
                           !.rt = Undef, !.ret = Undef,
                           !.hdr1 = IF f.nReq = 0 THEN h ELSE f.hdr1,
                           !.sendGrant = lastGrant])
    /\ running' = None
    /\ UNCHANGED <<loginVars, variant, orch, apiVars, hostVars, lastGrant>>

\* the vendor API answers
RqRespond(t) ==
    /\ running = None
    /\ task[t].pc = "rq_wait"
    /\ \E status \in ApiStatuses :
          LET f == task[t]
              g == [f EXCEPT !.lastStatus = status,
                             !.first401 = f.first401 \/ (status = 401 /\ f.nReq = 1),
                             !.retry401 = f.retry401 \/ (status = 401 /\ f.nReq = 2)]
          IN IF status = 200
             THEN Upd(t, [g EXCEPT !.pc = f.rqRet])
             ELSE IF RetriesOn(status, f.retry)
             THEN Upd(t, [g EXCEPT !.pc = "rf_entry", !.rfRet = "rq_retry",
                                   !.rfErr = f.rqErr, !.nRf = f.nRf + 1,
                                   !.nRf401 = f.nRf401 + 1])
             ELSE Upd(t, [g EXCEPT !.pc = f.rqErr, !.err = HttpError(status)])
    /\ running' = t
    /\ UNCHANGED <<loginVars, variant, orch, apiVars, hostVars, lastGrant>>

\* return this.request(config, false)
RqRetry(t) ==
    /\ running = t
    /\ task[t].pc = "rq_retry"
    /\ Upd(t, [task[t] EXCEPT !.pc = "rq_entry", !.retry = FALSE])
    /\ UNCHANGED <<loginVars, variant, orch, running, apiVars, hostVars, lastGrant>>

ApiSteps(t) ==
    \/ RqEntry(t)
    \/ RfEntry(t)
    \/ RfRespond(t)
    \/ RqAttach(t)
    \/ RqRespond(t)
    \/ RqRetry(t)

(***************************************************************************)
(* The manager driven by one sequential client, from any manager state.    *)
(***************************************************************************)
\* the refresh tokens a manager of variant v can hold
HeldRefresh(v) ==
    {Null}
    \cup {SetRefreshTokenValue(v, tok) : tok \in StoredRefresh(v) \cup {Undef}}
    \cup {RefreshedRefresh(v, Null, Null, rtk) : rtk \in IssuedRefresh(v)}
    \cup (IF v = "legacy" THEN {Undef} ELSE {})

HeldAccess(v) ==
    {Null} \cup AccessToks \cup (IF v = "legacy" THEN {Undef} ELSE {})

\* no response under examination
NoResp == [status |-> -1, loc |-> Undef, data |-> [str |-> FALSE, has |-> {}]]

NoObs == [nHttp |-> 0, nChain |-> 0, nStart |-> 0, ends |-> <<>>, known |-> "",
          first |-> {}, loc |-> Undef, params |-> Undef, exReq |-> Undef,
          exErr |-> <<>>, exTok |-> <<Undef, Undef>>,
          startResp |-> NoResp, authResp |-> NoResp,
          form |-> [action |-> Undef, inputs |-> <<>>],
          parsed |-> [actionUrl |-> Undef, fields |-> <<>>, userField |-> Undef,
                      passField |-> Undef],
          post |-> [url |-> Undef, fields |-> <<>>]]

\* the login driver is not part of the configuration under study
NoLogin ==
    /\ ver = "none"
    /\ removeAll = FALSE
    /\ lpc = "idle"
    /\ attempt = 0
    /\ safety = 0
    /\ resp = NoResp
    /\ jar = 0
    /\ clientJar = 0
    /\ cookies = <<>>
    /\ exTry = 0
    /\ lret = [kind |-> "none", msg |-> <<>>, access |-> Undef, refresh |-> Undef]
    /\ obs = NoObs

HostIdle ==
    /\ apiSet = TRUE
    /\ config = [email |-> <<>>, password |-> <<>>, refreshToken |-> Undef,
                 keepPassword |-> FALSE]
    /\ native = config
    /\ info = [connection |-> FALSE, tokenValid |-> FALSE, tokenError |-> "",
               loginStep |-> ""]
    /\ pollTimer = FALSE
    /\ tokenInvalid = FALSE
    /\ fired = 0

InitApi ==
    /\ variant \in Variants
    /\ orch = "none"
    /\ running = None
    /\ accessToken \in HeldAccess(variant)
    /\ refreshToken \in HeldRefresh(variant)
    /\ HostIdle
    /\ task = [t \in Tasks |-> IdleTask]
    /\ lastGrant = NoGrant
    /\ NoLogin

\* the client calls request(config) or request(config, retry)
ClientRequest ==
    /\ running = None
    /\ task["client"].pc = "idle"
    /\ \E r \in BOOLEAN :
          Upd("client", [IdleTask EXCEPT !.pc = "rq_entry", !.retry = r, !.retry0 = r,
                                         !.rqRet = "call_done", !.rqErr = "call_failed",
                                         !.at0 = accessToken, !.rt0 = refreshToken,
                                         !.ev = "request"])
    /\ running' = "client"
    /\ UNCHANGED <<loginVars, variant, orch, apiVars, hostVars, lastGrant>>

\* the client calls refresh()
ClientRefresh ==
    /\ running = None
    /\ task["client"].pc = "idle"
    /\ Upd("client", [IdleTask EXCEPT !.pc = "rf_entry", !.rfRet = "call_done",
                                      !.rfErr = "call_failed", !.nRf = 1,
                                      !.at0 = accessToken, !.rt0 = refreshToken,
                                      !.ev = "refresh"])
    /\ running' = "client"
    /\ UNCHANGED <<loginVars, variant, orch, apiVars, hostVars, lastGrant>>

\* the client calls setRefreshToken(token)
ClientSetRefreshToken ==
    /\ running = None
    /\ task["client"].pc = "idle"
    /\ variant # "legacy"
    /\ \E tok \in StoredRefresh(variant) \cup {Undef} :
          refreshToken' = SetRefreshTokenValue(variant, tok)
    /\ UNCHANGED <<loginVars, variant, orch, running, accessToken, hostVars, task, lastGrant>>

\* the call has returned or thrown; the client takes the outcome
ClientReturn ==
    /\ running = "client"
    /\ task["client"].pc \in {"call_done", "call_failed"}
    /\ Upd("client", IdleTask)
    /\ running' = None
    /\ UNCHANGED <<loginVars, variant, orch, apiVars, hostVars, lastGrant>>

NextApi ==
    \/ ClientRequest
    \/ ClientRefresh
    \/ ClientSetRefreshToken
    \/ ClientReturn
    \/ ApiSteps("client")

SpecApi == InitApi /\ [][NextApi]_vars

(***************************************************************************)
(* The persistence collaborator: extendForeignObjectAsync on the adapter's  *)
(* instance object merges the native payload into the stored native.        *)
(***************************************************************************)
\* the stored native after a payload is merged: a key the payload lacks is kept
ExtendNative(nat, pay) ==
    [k \in DOMAIN nat |->
        IF k = "keepPassword" THEN pay[k]
        ELSE IF pay[k] # Undef THEN pay[k] ELSE nat[k]]

\* persistRefreshTokenIfChanged(newToken): the payload written, NoPay if none
PersistPayload(cfg, newToken) ==
    LET nt == Strip(newToken)
        current == Strip(cfg.refreshToken)
    IN IF ~Truthy(nt) \/ current = nt
       THEN NoPay
       ELSE [cfg EXCEPT !.refreshToken = nt]

\* refreshAndPersistToken: the payload written after refresh(), NoPay if none
RotatedPayload(cfg, before, after) ==
    IF Truthy(after) /\ Truthy(before) /\ after # before
    THEN [cfg EXCEPT !.refreshToken = after]
    ELSE NoPay

\* the payload that clears the stored password after a login
ClearPasswordPayload(cfg) == [cfg EXCEPT !.password = <<>>]

\* mutant: the access token is handed to persistRefreshTokenIfChanged
LoginPersistArg_Access(tokens) == tokens[1]

\* the token onReady hands to persistRefreshTokenIfChanged after a login
LoginPersistArg(tokens) == tokens[2]

\* a handler hands payload p to the collaborator, or goes on when there is none
StartWrite(t, f, p, ret, err) ==
    IF p = NoPay
    THEN /\ Upd(t, [f EXCEPT !.pc = ret])
         /\ running' = t
    ELSE /\ Upd(t, [f EXCEPT !.pc = "w_wait", !.pay = p, !.wRet = ret, !.wErr = err,
                             !.nW = f.nW + 1])
         /\ running' = None

\* the object store answers a write: it is applied, or it fails
WriteRespond(t) ==
    /\ running = None
    /\ task[t].pc = "w_wait"
    /\ \E ok \in BOOLEAN :
          IF ok
          THEN /\ native' = ExtendNative(native, task[t].pay)
               /\ Upd(t, [task[t] EXCEPT !.pc = task[t].wRet, !.pay = NoPay])
          ELSE /\ Upd(t, [task[t] EXCEPT !.pc = task[t].wErr, !.pay = NoPay,
                                          !.err = "WRITE_FAILED"])
               /\ UNCHANGED native
    /\ running' = t
    /\ UNCHANGED <<loginVars, variant, orch, apiVars, apiSet, config, info, pollTimer,
                   tokenInvalid, lastGrant, fired>>

(***************************************************************************)
(* GroheSmarthome.onReady (main.js, web-login orchestrator)                *)
(***************************************************************************)
\* onReady is past the token steps: their locals are gone
Returned(f, pc) ==
    [IdleTask EXCEPT !.pc = pc, !.err = f.err, !.nPoll = f.nPoll, !.inv = f.inv]

InfoReset == [connection |-> FALSE, tokenValid |-> FALSE, tokenError |-> "",
              loginStep |-> ""]

\* onReady up to the first await on the network: states reset, api created,
\* step 1 entered when a refresh token is stored
ReadyStart ==
    /\ orch = "full"
    /\ running = None
    /\ task["ready"].pc = "idle"
    /\ apiSet' = TRUE
    /\ accessToken' = Null
    /\ LET savedRefresh == Strip(config.refreshToken)
           f == task["ready"]
       IN IF Truthy(savedRefresh)
          THEN /\ info' = [InfoReset EXCEPT !.loginStep = "refresh_with_saved_token"]
               /\ refreshToken' = SetRefreshTokenValue(variant, savedRefresh)
               /\ Upd("ready", [f EXCEPT !.pc = "rf_entry", !.rfRet = "rd_s1_ok",
                                         !.rfErr = "rd_s1_catch", !.nRf = 1])
          ELSE /\ info' = InfoReset
               /\ refreshToken' = Null
               /\ Upd("ready", [f EXCEPT !.pc = "rd_step2"])
    /\ running' = "ready"
    /\ UNCHANGED <<loginVars, variant, orch, config, native, pollTimer, tokenInvalid,
                   lastGrant, fired>>

\* step 1 after refresh() returned: persistRefreshTokenIfChanged(refreshToken)
ReadyS1Persist ==
    /\ running = "ready"
    /\ task["ready"].pc = "rd_s1_ok"
    /\ LET f == [task["ready"] EXCEPT !.s1 = "ok", !.s1ret = task["ready"].ret]
       IN StartWrite("ready", f, PersistPayload(config, f.ret), "rd_s1_valid", "rd_s1_catch")
    /\ UNCHANGED <<loginVars, variant, orch, apiVars, hostVars, lastGrant>>

\* step 1 completed: info.tokenValid = true, info.tokenError = ''
ReadyS1Valid ==
    /\ running = "ready"
    /\ task["ready"].pc = "rd_s1_valid"
    /\ info' = [info EXCEPT !.tokenValid = TRUE, !.tokenError = ""]
    /\ Upd("ready", [task["ready"] EXCEPT !.pc = "rd_step2"])
    /\ UNCHANGED <<loginVars, variant, orch, running, apiVars, apiSet, config, native, pollTimer,
                   tokenInvalid, lastGrant, fired>>

\* the catch of step 1: whatever the try block threw is logged, onReady goes on
ReadyS1Catch ==
    /\ running = "ready"
    /\ task["ready"].pc = "rd_s1_catch"
    /\ Upd("ready", [task["ready"] EXCEPT
                        !.pc = "rd_step2",
                        !.s1 = IF task["ready"].s1 = "ok" THEN "ok" ELSE "threw"])
    /\ UNCHANGED <<loginVars, variant, orch, running, apiVars, hostVars, lastGrant>>

\* step 2: the web login is needed while no access token is held
ReadyStep2 ==
    /\ running = "ready"
    /\ task["ready"].pc = "rd_step2"
    /\ LET f == task["ready"]
       IN IF Truthy(accessToken)
          THEN /\ Upd("ready", [f EXCEPT !.pc = "rd_ready"])
               /\ running' = running
               /\ UNCHANGED info
          ELSE IF ~Truthy(config.email) \/ ~Truthy(config.password)
          THEN /\ Upd("ready", [f EXCEPT !.pc = "rd_catch", !.err = "NO_CREDENTIALS"])
               /\ running' = running
               /\ UNCHANGED info
          ELSE /\ Upd("ready", [f EXCEPT !.pc = "login_wait", !.nLogin = f.nLogin + 1])
               /\ info' = [info EXCEPT !.loginStep = "web_login_start"]
               /\ running' = None
    /\ UNCHANGED <<loginVars, variant, orch, apiVars, apiSet, config, native, pollTimer,
                   tokenInvalid, lastGrant, fired>>

\* login.login(email, password) returns a token pair or throws; on success
\* both tokens are handed to the manager
LoginRespond ==
    /\ running = None
    /\ task["ready"].pc = "login_wait"
    /\ \E ok \in BOOLEAN :
       \E at \in AccessToks :
       \E rtk \in IssuedRefresh(variant) :
          LET f == task["ready"]
          IN IF ok
             THEN /\ info' = [info EXCEPT !.loginStep = "web_login_tokens_received"]
                  /\ accessToken' = SetAccessTokenValue(at)
                  /\ refreshToken' = SetRefreshTokenValue(variant, rtk)
                  /\ lastGrant' = [by |-> "login", tok |-> at]
                  /\ Upd("ready", [f EXCEPT !.pc = "rd_s2_persist", !.login = <<at, rtk>>,
                                            !.inv = Undef])
             ELSE /\ Upd("ready", [f EXCEPT !.pc = "rd_catch", !.err = "LOGIN_FAILED"])
                  /\ UNCHANGED <<info, apiVars, lastGrant>>
    /\ running' = "ready"
    /\ UNCHANGED <<loginVars, variant, orch, apiSet, config, native, pollTimer, tokenInvalid, fired>>

\* step 2 after the login: persistRefreshTokenIfChanged(tokens.refresh_token)
ReadyS2Persist ==
    /\ running = "ready"
    /\ task["ready"].pc = "rd_s2_persist"
    /\ StartWrite("ready", task["ready"],
                  PersistPayload(config, LoginPersistArg(task["ready"].login)),
                  "rd_pwclear", "rd_catch")
    /\ UNCHANGED <<loginVars, variant, orch, apiVars, hostVars, lastGrant>>

\* mutant: the password is cleared whatever keepPassword says
ReadyClearPassword_Always ==
    /\ running = "ready"
    /\ task["ready"].pc = "rd_pwclear"
    /\ StartWrite("ready", task["ready"], ClearPasswordPayload(config),
                  "rd_s2_valid", "rd_catch")
    /\ UNCHANGED <<loginVars, variant, orch, apiVars, hostVars, lastGrant>>

\* step 2: the stored password is cleared unless keepPassword is set
ReadyClearPassword ==
    /\ running = "ready"
    /\ task["ready"].pc = "rd_pwclear"
    /\ StartWrite("ready", task["ready"],
                  IF config.keepPassword THEN NoPay ELSE ClearPasswordPayload(config),
                  "rd_s2_valid", "rd_catch")
    /\ UNCHANGED <<loginVars, variant, orch, apiVars, hostVars, lastGrant>>

\* step 2 completed: info.tokenValid = true, info.tokenError = ''
ReadyS2Valid ==
    /\ running = "ready"
    /\ task["ready"].pc = "rd_s2_valid"
    /\ info' = [info EXCEPT !.tokenValid = TRUE, !.tokenError = ""]
    /\ Upd("ready", [task["ready"] EXCEPT !.pc = "rd_ready"])
    /\ UNCHANGED <<loginVars, variant, orch, running, apiVars, apiSet, config, native, pollTimer,
                   tokenInvalid, lastGrant, fired>>

\* loginStep 'ready', connection true, then the first pollDevices()
ReadyReady ==
    /\ running = "ready"
    /\ task["ready"].pc = "rd_ready"
    /\ info' = [info EXCEPT !.loginStep = "ready", !.connection = TRUE]
    /\ Upd("ready", [Returned(task["ready"], "pd_entry") EXCEPT !.pdRet = "rd_timer"])
    /\ UNCHANGED <<loginVars, variant, orch, running, apiVars, apiSet, config, native, pollTimer,
                   tokenInvalid, lastGrant, fired>>

\* the poll timer is started; onReady returns
ReadyTimer ==
    /\ running = "ready"
    /\ task["ready"].pc \in {"rd_timer", "rt_timer"}
    /\ pollTimer' = TRUE
    /\ Upd("ready", Returned(task["ready"], "rd_finished"))
    /\ running' = None
    /\ UNCHANGED <<loginVars, variant, orch, apiVars, apiSet, config, native, info,
                   tokenInvalid, lastGrant, fired>>

\* mutant: the diagnostic is not recorded
HandleInitErrorInfo_NoDiagnostic(code) ==
    [connection |-> FALSE, tokenValid |-> FALSE, tokenError |-> "",
     loginStep |-> "error"]

\* the info states handleInitError(err) writes
HandleInitErrorInfo(code) ==
    [connection |-> FALSE, tokenValid |-> FALSE, tokenError |-> code,
     loginStep |-> "error"]

\* the catch of onReady: handleInitError(err); onReady returns
ReadyCatch ==
    /\ running = "ready"
    /\ task["ready"].pc = "rd_catch"
    /\ info' = HandleInitErrorInfo(task["ready"].err)
    /\ Upd("ready", Returned(task["ready"], "rd_failed"))
    /\ running' = None
    /\ UNCHANGED <<loginVars, variant, orch, apiVars, apiSet, config, native, pollTimer,
                   tokenInvalid, lastGrant, fired>>

(***************************************************************************)
(* GroheSmarthome.onReady (main.js, refresh-token-only orchestrator)       *)
(***************************************************************************)
\* onReady up to refreshAndPersistToken's refresh()
RtReadyStart ==
    /\ orch = "rtonly"
    /\ running = None
    /\ task["ready"].pc = "idle"
    /\ info' = InfoReset
    /\ LET f == task["ready"]
       IN IF ~Truthy(config.refreshToken)
          THEN /\ Upd("ready", [f EXCEPT !.pc = "rt_catch", !.err = "NO_REFRESH_TOKEN"])
               /\ UNCHANGED <<apiSet, apiVars>>
          ELSE /\ apiSet' = TRUE
               /\ accessToken' = Null
               /\ refreshToken' = SetRefreshTokenValue(variant, config.refreshToken)
               /\ Upd("ready", [f EXCEPT
                                   !.pc = "rf_entry", !.rfRet = "rt_refreshed",
                                   !.rfErr = "rt_catch", !.nRf = 1,
                                   !.before = SetRefreshTokenValue(variant, config.refreshToken)])
    /\ running' = "ready"
    /\ UNCHANGED <<loginVars, variant, orch, config, native, pollTimer, tokenInvalid,
                   lastGrant, fired>>

\* refreshAndPersistToken after refresh(): a rotated token is written
RtPersist ==
    /\ running = "ready"
    /\ task["ready"].pc = "rt_refreshed"
    /\ LET f == [task["ready"] EXCEPT !.s1 = "ok", !.s1ret = task["ready"].ret]
       IN StartWrite("ready", f, RotatedPayload(config, f.before, refreshToken),
                     "rt_valid", "rt_catch")
    /\ UNCHANGED <<loginVars, variant, orch, apiVars, hostVars, lastGrant>>

\* connection and tokenValid true, then the first pollDevices()
RtValid ==
    /\ running = "ready"
    /\ task["ready"].pc = "rt_valid"
    /\ info' = [info EXCEPT !.connection = TRUE, !.tokenValid = TRUE, !.tokenError = ""]
    /\ Upd("ready", [Returned(task["ready"], "pd_entry") EXCEPT !.pdRet = "rt_timer"])
    /\ UNCHANGED <<loginVars, variant, orch, running, apiVars, apiSet, config, native, pollTimer,
                   tokenInvalid, lastGrant, fired>>

\* mutant: every startup error marks the token invalid
RtCatch_AnyError ==
    /\ running = "ready"
    /\ task["ready"].pc = "rt_catch"
    /\ info' = [info EXCEPT !.connection = FALSE, !.tokenValid = FALSE,
                            !.tokenError = task["ready"].err]
    /\ tokenInvalid' = TRUE /\ pollTimer' = FALSE
    /\ Upd("ready", Returned(task["ready"], "rd_failed"))
    /\ running' = None
    /\ UNCHANGED <<loginVars, variant, orch, apiVars, apiSet, config, native, lastGrant, fired>>

\* the catch of onReady: handleTokenOrInitError(err); onReady returns
RtCatch ==
    /\ running = "ready"
    /\ task["ready"].pc = "rt_catch"
    /\ info' = [info EXCEPT !.connection = FALSE, !.tokenValid = FALSE,
                            !.tokenError = task["ready"].err]
    /\ IF task["ready"].err = "INVALID_REFRESH_TOKEN"
       THEN tokenInvalid' = TRUE /\ pollTimer' = FALSE
       ELSE UNCHANGED <<tokenInvalid, pollTimer>>
    /\ Upd("ready", Returned(task["ready"], "rd_failed"))
    /\ running' = None
    /\ UNCHANGED <<loginVars, variant, orch, apiVars, apiSet, config, native, lastGrant, fired>>

(***************************************************************************)
(* pollDevices                                                             *)
(***************************************************************************)
\* the frame of a fresh request(config) call made by a handler
NewRequest(f, ret, err) ==
    [f EXCEPT !.pc = "rq_entry", !.retry = TRUE, !.retry0 = TRUE,
              !.rqRet = ret, !.rqErr = err, !.err = "",
              !.nReq = 0, !.nRf = 0, !.nRf401 = 0, !.first401 = FALSE,
              !.retry401 = FALSE, !.rf401ok = FALSE, !.lastStatus = -1,
              !.rfStatus = -1, !.rfAccess = Undef, !.rfRefresh = Undef,
              !.hdr = Undef, !.hdr1 = Undef, !.sendGrant = NoGrant, !.rotated = FALSE,
              !.at0 = accessToken, !.rt0 = refreshToken, !.ev = "request"]

\* pollDevices(): the guards, then the devices request
PollEntry(t) ==
    /\ running = t
    /\ task[t].pc = "pd_entry"
    /\ LET f == task[t]
       IN IF ~apiSet \/ (orch = "rtonly" /\ tokenInvalid)
          THEN Upd(t, [f EXCEPT !.pc = f.pdRet, !.nPoll = f.nPoll + 1])
          ELSE Upd(t, [NewRequest(f, "pd_ok", "pd_catch") EXCEPT !.nPoll = f.nPoll + 1])
    /\ UNCHANGED <<loginVars, variant, orch, running, apiVars, hostVars, lastGrant>>

\* the request returned: connection true, the devices are mirrored
PollOk(t) ==
    /\ running = t
    /\ task[t].pc = "pd_ok"
    /\ info' = [info EXCEPT !.connection = TRUE]
    /\ Upd(t, [task[t] EXCEPT !.pc = task[t].pdRet])
    /\ UNCHANGED <<loginVars, variant, orch, running, apiVars, apiSet, config, native, pollTimer,
                   tokenInvalid, lastGrant, fired>>

\* mutant: the catch clause only logs
PollCatch_LogOnly(t) ==
    /\ running = t
    /\ task[t].pc = "pd_catch"
    /\ info' = info
    /\ Upd(t, [task[t] EXCEPT !.pc = task[t].pdRet])
    /\ UNCHANGED <<loginVars, variant, orch, running, apiVars, apiSet, config, native, pollTimer,
                   tokenInvalid, lastGrant, fired>>

\* the request threw: connection false, the error is logged
PollCatch(t) ==
    /\ running = t
    /\ task[t].pc = "pd_catch"
    /\ info' = [info EXCEPT !.connection = FALSE]
    /\ Upd(t, [task[t] EXCEPT !.pc = task[t].pdRet])
    /\ UNCHANGED <<loginVars, variant, orch, running, apiVars, apiSet, config, native, pollTimer,
                   tokenInvalid, lastGrant, fired>>

\* the interval timer fires, for at most n events: pollDevices() is called
PollTickWithin(n) ==
    /\ running = None
    /\ pollTimer
    /\ task["poll"].pc = "idle"
    /\ fired < n
    /\ fired' = fired + 1
    /\ Upd("poll", [IdleTask EXCEPT !.pc = "pd_entry", !.pdRet = "done",
                                    !.prev = task["poll"].prev])
    /\ running' = "poll"
    /\ UNCHANGED <<loginVars, variant, orch, apiVars, apiSet, config, native, info, pollTimer,
                   tokenInvalid, lastGrant>>

PollTick == PollTickWithin(MaxEvents)

\* a timer callback or an event handler has completed; prev is what the
\* last pollDevices() of the timer caught, "ok" when it caught nothing
TaskEnd(t) ==
    /\ running = t
    /\ task[t].pc = "done"
    /\ Upd(t, [IdleTask EXCEPT !.prev = IF t # "poll" THEN ""
                                        ELSE IF task[t].err = "" THEN "ok"
                                        ELSE task[t].err])
    /\ running' = None
    /\ UNCHANGED <<loginVars, variant, orch, apiVars, hostVars, lastGrant>>

(***************************************************************************)
(* onStateChange                                                           *)
(***************************************************************************)
\* the ids onStateChange acts on, by orchestrator ("button" is any of
\* controls.valveOpen, controls.valveClose, controls.dispenseTrigger)
WriteKinds(o) ==
    IF o = "full"
    THEN {"setValve", "button", "other"}
    ELSE {"setValve", "dispenseWater", "other"}

\* a state change is delivered: a user write (ack = false), an acknowledged
\* value (ack = true) or a deletion (state = null)
StateChange ==
    /\ running = None
    /\ task["write"].pc = "idle"
    /\ fired < MaxEvents
    /\ fired' = fired + 1
    /\ \E k \in WriteKinds(orch) :
       \E e \in {"user", "acked", "null"} :
       \E v \in BOOLEAN :
          /\ e # "user" => v = FALSE
          /\ Upd("write", [IdleTask EXCEPT !.pc = "sc_entry", !.kind = k, !.ev = e,
                                           !.val = v])
    /\ running' = "write"
    /\ UNCHANGED <<loginVars, variant, orch, apiVars, apiSet, config, native, info, pollTimer,
                   tokenInvalid, lastGrant>>

\* the id asks for a vendor API request
WriteActs(o, k, v) ==
    IF o = "full"
    THEN k = "setValve" \/ (k = "button" /\ v)
    ELSE k \in {"setValve", "dispenseWater"}

\* mutant: the ack flag of the state is not looked at
WriteEntry_AckIgnored ==
    /\ running = "write"
    /\ task["write"].pc = "sc_entry"
    /\ LET f == task["write"]
       IN IF f.ev = "null" \/ ~apiSet \/ (orch = "rtonly" /\ tokenInvalid)
          THEN Upd("write", [f EXCEPT !.pc = "done"])
          ELSE IF WriteActs(orch, f.kind, f.val)
          THEN Upd("write", [NewRequest(f, "sc_ok", "sc_catch") EXCEPT !.ev = f.ev])
          ELSE Upd("write", [f EXCEPT !.pc = "done",
                                      !.acked = (orch = "full" /\ f.kind = "button")])
    /\ UNCHANGED <<loginVars, variant, orch, running, apiVars, hostVars, lastGrant>>

\* onStateChange(id, state): the guards, then the action of the id
WriteEntry ==
    /\ running = "write"
    /\ task["write"].pc = "sc_entry"
    /\ LET f == task["write"]
       IN IF f.ev # "user" \/ ~apiSet \/ (orch = "rtonly" /\ tokenInvalid)
          THEN Upd("write", [f EXCEPT !.pc = "done"])
          ELSE IF WriteActs(orch, f.kind, f.val)
          THEN Upd("write", [NewRequest(f, "sc_ok", "sc_catch") EXCEPT !.ev = "user"])
          ELSE Upd("write", [f EXCEPT !.pc = "done",
                                      !.acked = (orch = "full" /\ f.kind = "button")])
    /\ UNCHANGED <<loginVars, variant, orch, running, apiVars, hostVars, lastGrant>>

\* the request returned: the state is acknowledged, a button is reset
WriteOk ==
    /\ running = "write"
    /\ task["write"].pc = "sc_ok"
    /\ Upd("write", [task["write"] EXCEPT
                        !.pc = "done", !.acked = TRUE,
                        !.reset = (orch = "full" /\ task["write"].kind = "button")])
    /\ UNCHANGED <<loginVars, variant, orch, running, apiVars, hostVars, lastGrant>>

\* mutant: the state is acknowledged in the catch clause as well
WriteCatch_Acks ==
    /\ running = "write"
    /\ task["write"].pc = "sc_catch"
    /\ Upd("write", [task["write"] EXCEPT !.pc = "done", !.acked = TRUE])
    /\ UNCHANGED <<loginVars, variant, orch, running, apiVars, hostVars, lastGrant>>

\* the request threw: the error is logged
WriteCatch ==
    /\ running = "write"
    /\ task["write"].pc = "sc_catch"
    /\ Upd("write", [task["write"] EXCEPT !.pc = "done"])
    /\ UNCHANGED <<loginVars, variant, orch, running, apiVars, hostVars, lastGrant>>

(***************************************************************************)
(* The adapter: either orchestrator with the manager variants it can load. *)
(***************************************************************************)
\* the manager variants that offer the methods an orchestrator calls
Loadable(o) == IF o = "full" THEN {"static"} ELSE {"static", "plain", "claims"}

Init ==
    /\ orch \in {"full", "rtonly"}
    /\ variant \in Loadable(orch)
    /\ running = None
    /\ apiSet = FALSE
    /\ accessToken = Null
    /\ refreshToken = Null
    /\ config \in [email : IF orch = "full" THEN {<<>>, <<"e">>} ELSE {<<>>},
                   password : IF orch = "full" THEN {<<>>, <<"p">>} ELSE {<<>>},
                   refreshToken : {<<>>} \cup StoredRefresh(variant),
                   keepPassword : IF orch = "full" THEN BOOLEAN ELSE {FALSE}]
    /\ native = config
    /\ info = [connection |-> FALSE, tokenValid |-> FALSE, tokenError |-> "",
               loginStep |-> ""]
    /\ pollTimer = FALSE
    /\ tokenInvalid = FALSE
    /\ task = [t \in Tasks |-> IdleTask]
    /\ lastGrant = NoGrant
    /\ fired = 0
    /\ NoLogin

Handlers == {"ready", "poll", "write"}

Next ==
    \/ ReadyStart
    \/ ReadyS1Persist
    \/ ReadyS1Valid
    \/ ReadyS1Catch
    \/ ReadyStep2
    \/ LoginRespond
    \/ ReadyS2Persist
    \/ ReadyClearPassword
    \/ ReadyS2Valid
    \/ ReadyReady
    \/ ReadyTimer
    \/ ReadyCatch
    \/ RtReadyStart
    \/ RtPersist
    \/ RtValid
    \/ RtCatch
    \/ PollTick
    \/ StateChange
    \/ WriteEntry
    \/ WriteOk
    \/ WriteCatch
    \/ \E t \in Handlers :
          \/ ApiSteps(t)
          \/ WriteRespond(t)
          \/ PollEntry(t)
          \/ PollOk(t)
          \/ PollCatch(t)
          \/ TaskEnd(t)

Spec == Init /\ [][Next]_vars

\* the adapter with its interval timer firing MaxPolls times and no state
\* change delivered
ScheduledPoll == PollTickWithin(MaxPolls)

NextPoll ==
    \/ ReadyStart
    \/ ReadyS1Persist
    \/ ReadyS1Valid
    \/ ReadyS1Catch
    \/ ReadyStep2
    \/ LoginRespond
    \/ ReadyS2Persist
    \/ ReadyClearPassword
    \/ ReadyS2Valid
    \/ ReadyReady
    \/ ReadyTimer
    \/ ReadyCatch
    \/ RtReadyStart
    \/ RtPersist
    \/ RtValid
    \/ RtCatch
    \/ ScheduledPoll
    \/ \E t \in {"ready", "poll"} :
          \/ ApiSteps(t)
          \/ WriteRespond(t)
          \/ PollEntry(t)
          \/ PollOk(t)
          \/ PollCatch(t)
          \/ TaskEnd(t)

SpecPoll == Init /\ [][NextPoll]_vars

(***************************************************************************)
(* GroheLogin: the web-login driver (lib/login).  A URL is a sequence      *)
(* <<scheme, host, path, p1, .., pn>> with each pi a <<key, value>> pair   *)
(* of the query, in the order they are written.  An HTML body is the set   *)
(* of the phrases under study that occur in it.                            *)
(***************************************************************************)
MaxAttempts == 3        \* for (let attempt = 1; attempt <= 3; attempt++)
SafetyLimit == 20       \* while (safety++ < 20)
MaxPhrases == 2         \* phrases occurring together in one HTML body
MaxQuery == 3           \* query parameters of an ondus:// location

LoginVersions == {"current", "older"}

Phrases == {"Restart login cookie not found", "We're sorry",
            "Invalid username or password", "OTP", "two-factor"}

\* String.prototype.toLowerCase on a phrase
LowerPhrase(p) ==
    CASE p = "Restart login cookie not found" -> "restart login cookie not found"
      [] p = "We're sorry" -> "we're sorry"
      [] p = "Invalid username or password" -> "invalid username or password"
      [] p = "OTP" -> "otp"
      [] OTHER -> p

\* response data: a string with the given phrases, or not a string at all
Html(ps) == [str |-> TRUE, has |-> ps]
NotString == [str |-> FALSE, has |-> {}]
Bodies == {Html(ps) : ps \in {q \in SUBSET Phrases : Cardinality(q) <= MaxPhrases}}

\* _detectKnownHtmlErrors(html), "" for null
DetectKnownHtmlErrors(html) ==
    IF ~html.str THEN ""
    ELSE IF "Restart login cookie not found" \in html.has THEN "RESTART_COOKIE_NOT_FOUND"
    ELSE IF "We're sorry" \in html.has THEN "KEYCLOAK_SORRY_PAGE"
    ELSE IF "Invalid username or password" \in html.has THEN "INVALID_CREDENTIALS"
    ELSE IF \E p \in html.has : LowerPhrase(p) \in {"otp", "two-factor"} THEN "MFA_REQUIRED"
    ELSE ""

TokenBase == <<"https://", "idp2-apigw.cloud.grohe.com", "/v3/iot/oidc/token">>
NextUrl == <<"https://", "idp2-apigw.cloud.grohe.com", "/next">>

QueryParams == {<<"code", <<"C">>>>, <<"state", <<"S">>>>, <<"session_state", <<"X">>>>}
Queries ==
    {q \in UNION {[1..n -> QueryParams] : n \in 0..MaxQuery} :
        \A i, j \in DOMAIN q : q[i][1] = q[j][1] => i = j}
OndusHosts == {"idp2-apigw.cloud.grohe.com", "h"}
OndusLocs == {<<"ondus://", h, "/v3/iot/oidc/token">> \o q : h \in OndusHosts, q \in Queries}

Query(url) == SubSeq(url, 4, Len(url))

\* URLSearchParams.get(k): the first value of key k, null if absent
SearchGet(q, k) ==
    IF \E i \in DOMAIN q : q[i][1] = k
    THEN q[CHOOSE i \in DOMAIN q : q[i][1] = k /\ \A j \in DOMAIN q : q[j][1] = k => i <= j][2]
    ELSE Null

\* the object built from searchParams.entries(): the last value of a key wins
SearchEntries(q) ==
    [k \in {q[i][1] : i \in DOMAIN q} |->
        q[CHOOSE i \in DOMAIN q : q[i][1] = k /\ \A j \in DOMAIN q : q[j][1] = k => j <= i][2]]

\* location.replace(/^ondus:\/\//, 'https://')
ReplaceScheme(location) ==
    IF location[1] = "ondus://" THEN <<"https://">> \o Tail(location) ELSE location

\* parseOndusLocation(location)
ParseOndusLocation(v, location) ==
    IF v = "current"
    THEN [httpsUrl |-> ReplaceScheme(location),
          params |-> SearchEntries(Query(ReplaceScheme(location)))]
    ELSE [code |-> SearchGet(Query(ReplaceScheme(location)), "code"),
          state |-> SearchGet(Query(ReplaceScheme(location)), "state")]

\* login(): what the ondus branch throws before token exchange, "" if nothing
OndusError(v, location) ==
    IF v = "older" /\ (~Truthy(ParseOndusLocation(v, location).code)
                         \/ ~Truthy(ParseOndusLocation(v, location).state))
    THEN "ondus Redirect ohne code/state erhalten"
    ELSE ""

\* _exchangeCodeForTokens: the request strategy k sends
ExchangeRequest(v, k, location) ==
    LET p == ParseOndusLocation(v, location)
    IN IF v = "current"
       THEN CASE k = 1 -> [method |-> "GET", url |-> p.httpsUrl, body |-> <<>>]
              [] k = 2 -> [method |-> "POST", url |-> TokenBase,
                           body |-> <<"json", <<"requestBody", p.httpsUrl>>>>]
              [] OTHER -> [method |-> "POST", url |-> TokenBase,
                           body |-> <<"form", <<"requestBody", p.httpsUrl>>>>]
       ELSE CASE k = 1 -> [method |-> "GET",
                           url |-> TokenBase \o <<<<"code", p.code>>, <<"state", p.state>>>>,
                           body |-> <<>>]
              [] k = 2 -> [method |-> "POST", url |-> TokenBase,
                           body |-> <<"json", <<"code", p.code>>, <<"state", p.state>>>>]
              [] OTHER -> [method |-> "POST", url |-> TokenBase,
                           body |-> <<"form", <<"code", p.code>>, <<"state", p.state>>>>]

\* the fresh jar of an attempt: this.jar, client.defaults.jar and the jars' cookies
ResetJar_Detached(hasRemoveAll, j, cj, ck, a) ==
    IF hasRemoveAll
    THEN [jar |-> j, clientJar |-> cj, cookies |-> [ck EXCEPT ![j] = {}]]
    ELSE [jar |-> a, clientJar |-> cj, cookies |-> ck]

ResetJar(hasRemoveAll, j, cj, ck, a) ==
    IF hasRemoveAll
    THEN [jar |-> j, clientJar |-> cj, cookies |-> [ck EXCEPT ![j] = {}]]
    ELSE [jar |-> a, clientJar |-> a, cookies |-> ck]

\* login(): the HTML branch of the redirect loop: <<"break">> or the error thrown
HtmlOutcome_NoLimit(known, a) ==
    IF known = "" THEN <<"Login fehlgeschlagen (Keycloak lieferte HTML statt Redirect).">>
    ELSE IF known = "RESTART_COOKIE_NOT_FOUND" THEN <<"break">>
    ELSE IF known = "MFA_REQUIRED"
         THEN <<"MFA/2FA erforderlich - automatischer Login nicht moeglich.">>
    ELSE IF known = "INVALID_CREDENTIALS" THEN <<"Ungueltige Zugangsdaten (Keycloak).">>
    ELSE <<"Keycloak Fehlerseite", known>>

HtmlOutcome_RetryInvalid(known, a) ==
    IF known = "" THEN <<"Login fehlgeschlagen (Keycloak lieferte HTML statt Redirect).">>
    ELSE IF known \in {"RESTART_COOKIE_NOT_FOUND", "INVALID_CREDENTIALS"} /\ a < MaxAttempts
         THEN <<"break">>
    ELSE IF known = "MFA_REQUIRED"
         THEN <<"MFA/2FA erforderlich - automatischer Login nicht moeglich.">>
    ELSE IF known = "INVALID_CREDENTIALS" THEN <<"Ungueltige Zugangsdaten (Keycloak).">>
    ELSE <<"Keycloak Fehlerseite", known>>

HtmlOutcome(known, a) ==
    IF known = "" THEN <<"Login fehlgeschlagen (Keycloak lieferte HTML statt Redirect).">>
    ELSE IF known = "RESTART_COOKIE_NOT_FOUND" /\ a < MaxAttempts THEN <<"break">>
    ELSE IF known = "MFA_REQUIRED"
         THEN <<"MFA/2FA erforderlich - automatischer Login nicht moeglich.">>
    ELSE IF known = "INVALID_CREDENTIALS" THEN <<"Ungueltige Zugangsdaten (Keycloak).">>
    ELSE <<"Keycloak Fehlerseite", known>>

\* a request that failed: transport error or a status outside 200..399
Failed == [status |-> 500, loc |-> Undef, data |-> NotString]

StartResponses ==
    {[status |-> s, loc |-> l, data |-> NotString] : s \in {200, 302}, l \in {Undef, NextUrl}}

AuthResponses ==
    {[status |-> s, loc |-> Undef, data |-> d] : s \in {200, 302}, d \in Bodies \cup {NotString}}

\* form.attr('action') of the auth page's first form
FormActions == {Undef, NextUrl}

MaxInputs == 3          \* input elements of the auth page's first form

\* an <input>: its name, type and value attributes, Undef when absent
Input(n, t, v) == [name |-> n, type |-> t, value |-> v]

InputKinds ==
    {Input(<<"username">>, <<"text">>, Undef),
     Input(<<"email">>, <<"email">>, <<"v">>),
     Input(<<"usernameOrEmail">>, Undef, Undef),
     Input(<<"login">>, <<"text">>, Undef),
     Input(Undef, <<"text">>, Undef),
     Input(<<"password">>, <<"password">>, Undef),
     Input(<<"pw">>, <<"Password">>, <<>>),
     Input(Undef, <<"password">>, Undef),
     Input(<<"credentialId">>, <<"hidden">>, <<"cid">>)}

\* the first form of the auth page: its action and its inputs in document order
Forms ==
    {[action |-> a, inputs |-> i] :
        a \in FormActions, i \in UNION {[1..n -> InputKinds] : n \in 0..MaxInputs}}

\* String.prototype.toLowerCase on a type attribute
LowerType(t) == IF t = <<"Password">> THEN <<"password">> ELSE t

\* the least and the greatest element of a non-empty set of indices
First(S) == CHOOSE i \in S : \A j \in S : i <= j
Last(S) == CHOOSE i \in S : \A j \in S : j <= i

\* fields: every named input with its value attribute, '' when it has none;
\* a later input of the same name replaces an earlier one
FormFields(inputs) ==
    [n \in {inputs[i].name : i \in {j \in DOMAIN inputs : Truthy(inputs[j].name)}} |->
        LET i == Last({j \in DOMAIN inputs : inputs[j].name = n})
        IN IF inputs[i].value = Undef THEN <<>> ELSE inputs[i].value]

\* passField: the first named input whose lower-cased type is password
PassField(inputs) ==
    LET S == {i \in DOMAIN inputs :
                Truthy(inputs[i].name)
                /\ LowerType(IF Truthy(inputs[i].type) THEN inputs[i].type ELSE <<>>)
                        = <<"password">>}
    IN IF S # {} THEN inputs[First(S)].name ELSE <<"password">>

UserCandidates == <<<<"username">>, <<"email">>, <<"usernameOrEmail">>>>

\* userField: the first candidate among the fields, else the name of the
\* first input[type="text"], input[type="email"], else 'username'
UserField_DocumentOrder(inputs) ==
    LET S == {i \in DOMAIN inputs :
                \E c \in DOMAIN UserCandidates : inputs[i].name = UserCandidates[c]}
        T == {i \in DOMAIN inputs : inputs[i].type \in {<<"text">>, <<"email">>}}
    IN IF S # {} THEN inputs[First(S)].name
       ELSE IF T # {} /\ Truthy(inputs[First(T)].name) THEN inputs[First(T)].name
       ELSE <<"username">>

UserField(inputs) ==
    LET C == {c \in DOMAIN UserCandidates : UserCandidates[c] \in DOMAIN FormFields(inputs)}
        T == {i \in DOMAIN inputs : inputs[i].type \in {<<"text">>, <<"email">>}}
    IN IF C # {} THEN UserCandidates[First(C)]
       ELSE IF T # {} /\ Truthy(inputs[First(T)].name) THEN inputs[First(T)].name
       ELSE <<"username">>

\* a field map with key k set to v
SetField(fields, k, v) ==
    [n \in DOMAIN fields \cup {k} |-> IF n = k THEN v ELSE fields[n]]

\* if (!('credentialId' in fields)) fields.credentialId = ''
WithCredentialId_Never(fields) == fields

WithCredentialId(fields) ==
    IF <<"credentialId">> \in DOMAIN fields THEN fields
    ELSE SetField(fields, <<"credentialId">>, <<>>)

\* _parseLoginForm: what it throws, "" if nothing
ParseLoginFormError_None(form) == ""

ParseLoginFormError(form) ==
    IF ~Truthy(form.action) THEN "Login-Form action nicht gefunden" ELSE ""

\* _parseLoginForm: what it returns
ParseLoginForm(form) ==
    [actionUrl |-> form.action,
     fields |-> WithCredentialId(FormFields(form.inputs)),
     userField |-> UserField(form.inputs),
     passField |-> PassField(form.inputs)]

\* the authenticate POST: fields[userField] = email; fields[passField] = password
AuthenticatePost(parsed, email, password) ==
    [url |-> parsed.actionUrl,
     fields |-> SetField(SetField(parsed.fields, parsed.userField, email),
                         parsed.passField, password)]

\* _getAuthPage: what it throws for the start response, <<>> if nothing
StartError(r) ==
    IF r.status # 302 \/ ~Truthy(r.loc)
    THEN <<"Unerwartete Start-Antwort", r.status>> ELSE <<>>

\* _getAuthPage: what it throws for the auth page, <<>> if nothing
AuthPageError_NoScan(r) ==
    IF r.status # 200 \/ ~r.data.str
    THEN <<"Keycloak Auth-Seite unerwartet", r.status>>
    ELSE <<>>

AuthPageError(r) ==
    IF r.status # 200 \/ ~r.data.str
    THEN <<"Keycloak Auth-Seite unerwartet", r.status>>
    ELSE IF DetectKnownHtmlErrors(r.data) # ""
    THEN <<"Keycloak Fehlerseite bereits beim GET auth", DetectKnownHtmlErrors(r.data)>>
    ELSE <<>>

NoForm == [action |-> Undef, inputs |-> <<>>]
NoParsed == [actionUrl |-> Undef, fields |-> <<>>, userField |-> Undef, passField |-> Undef]
NoPost == [url |-> Undef, fields |-> <<>>]

ChainResponses ==
    {[status |-> 302, loc |-> l, data |-> NotString] : l \in OndusLocs}
    \cup {[status |-> s, loc |-> NextUrl, data |-> NotString] : s \in {301, 302, 303}}
    \cup {[status |-> 302, loc |-> Undef, data |-> NotString]}
    \cup {[status |-> 200, loc |-> Undef, data |-> d] : d \in Bodies \cup {NotString}}
    \cup {[status |-> 200, loc |-> NextUrl, data |-> Html({"Invalid username or password"})]}

ExchResponses ==
    {[status |-> 200, access |-> a, refresh |-> r] :
        a \in {Undef, <<"a">>}, r \in {Undef, <<"r">>}}
    \cup {[status |-> 204, access |-> Undef, refresh |-> Undef]}

ExchFailed == [status |-> 500, access |-> Undef, refresh |-> Undef]

\* tryOne: the error for a response, <<>> if it yields the tokens
TryOneError_AccessOnly(r) ==
    IF r = ExchFailed THEN <<"request failed">>
    ELSE IF r.status # 200 THEN <<"status", r.status>>
    ELSE IF ~Truthy(r.access) THEN <<"missing access_token/refresh_token">>
    ELSE <<>>

TryOneError(r) ==
    IF r = ExchFailed THEN <<"request failed">>
    ELSE IF r.status # 200 THEN <<"status", r.status>>
    ELSE IF ~Truthy(r.access) \/ ~Truthy(r.refresh)
         THEN <<"missing access_token/refresh_token">>
    ELSE <<>>

\* _exchangeCodeForTokens: what it throws when strategy C has failed, given the
\* failure of the strategy before it and its own
ExchFailure_First(prev, last) == prev

ExchFailure(prev, last) == last

NoRet == [kind |-> "none", msg |-> <<>>, access |-> Undef, refresh |-> Undef]
Thrown(m) == [kind |-> "throw", msg |-> m, access |-> Undef, refresh |-> Undef]

\* the credentials login() is called with, when both are given
Email == <<"e">>
Password == <<"p">>

\* one more HTTP request of the current attempt is sent through the client
Sent(o) == [o EXCEPT !.nHttp = o.nHttp + 1]

\* a response arrived: the client stores its cookies in the jar it uses
StoreCookies == cookies' = [cookies EXCEPT ![clientJar] = @ \cup {attempt}]

\* login() is called with the configured credentials
LoginCall ==
    /\ lpc = "idle"
    /\ \E email \in {<<>>, Email}, password \in {<<>>, Password} :
          IF ~Truthy(email) \/ ~Truthy(password)
          THEN /\ lpc' = "thrown"
               /\ lret' = Thrown(<<"E-Mail/Passwort fehlen">>)
               /\ UNCHANGED attempt
          ELSE /\ lpc' = "attempt"
               /\ attempt' = 1
               /\ UNCHANGED lret
    /\ UNCHANGED <<ver, removeAll, safety, resp, jar, clientJar, cookies, exTry, obs,
                   adapterVars>>

\* the head of the for loop: the bound, the jar reset, GET start
AttemptStart ==
    /\ lpc = "attempt"
    /\ IF attempt > MaxAttempts
       THEN /\ lpc' = "thrown"
            /\ lret' = Thrown(<<"Login fehlgeschlagen (nach 3 Versuchen).">>)
            /\ UNCHANGED <<jar, clientJar, cookies, obs>>
       ELSE LET j == ResetJar(removeAll, jar, clientJar, cookies, attempt)
            IN /\ jar' = j.jar
               /\ clientJar' = j.clientJar
               /\ cookies' = j.cookies
               /\ lpc' = "start_wait"
               /\ obs' = [obs EXCEPT !.nStart = obs.nStart + 1,
                                      !.nHttp = 1,
                                      !.nChain = 0,
                                      !.first = j.cookies[j.clientJar],
                                      !.known = "",
                                      !.startResp = NoResp,
                                      !.authResp = NoResp]
               /\ UNCHANGED lret
    /\ resp' = NoResp
    /\ UNCHANGED <<ver, removeAll, attempt, safety, exTry, adapterVars>>

\* _getAuthPage: the start URL answers; GET auth
StartRespond ==
    /\ lpc = "start_wait"
    /\ \E r \in StartResponses \cup {Failed} :
          IF r = Failed
          THEN /\ lpc' = "thrown"
               /\ lret' = Thrown(<<"request failed">>)
               /\ UNCHANGED <<cookies, obs>>
          ELSE /\ StoreCookies
               /\ IF StartError(r) # <<>>
                  THEN /\ lpc' = "thrown"
                       /\ lret' = Thrown(StartError(r))
                       /\ obs' = [obs EXCEPT !.startResp = r]
                  ELSE /\ lpc' = "auth_wait"
                       /\ obs' = [Sent(obs) EXCEPT !.startResp = r]
                       /\ UNCHANGED lret
    /\ UNCHANGED <<ver, removeAll, attempt, safety, resp, jar, clientJar, exTry,
                   adapterVars>>

\* _getAuthPage: the auth page answers; _parseLoginForm; the credentials are
\* put into the fields; POST authenticate
AuthRespond ==
    /\ lpc = "auth_wait"
    /\ \E r \in AuthResponses \cup {Failed} :
          IF r = Failed
          THEN /\ lpc' = "thrown"
               /\ lret' = Thrown(<<"request failed">>)
               /\ UNCHANGED <<cookies, obs>>
          ELSE /\ StoreCookies
               /\ IF AuthPageError(r) # <<>>
                  THEN /\ lpc' = "thrown"
                       /\ lret' = Thrown(AuthPageError(r))
                       /\ obs' = [obs EXCEPT !.authResp = r]
                  ELSE \E form \in Forms :
                          IF ParseLoginFormError(form) # ""
                          THEN /\ lpc' = "thrown"
                               /\ lret' = Thrown(<<ParseLoginFormError(form)>>)
                               /\ obs' = [obs EXCEPT !.authResp = r, !.form = form]
                          ELSE /\ lpc' = "post_wait"
                               /\ obs' = [Sent(obs) EXCEPT
                                             !.authResp = r,
                                             !.form = form,
                                             !.parsed = ParseLoginForm(form),
                                             !.post = AuthenticatePost(ParseLoginForm(form),
                                                                       Email, Password)]
                               /\ UNCHANGED lret
    /\ UNCHANGED <<ver, removeAll, attempt, safety, resp, jar, clientJar, exTry,
                   adapterVars>>

\* the authenticate POST answers: let resp, let safety = 0
PostRespond ==
    /\ lpc = "post_wait"
    /\ \E r \in ChainResponses \cup {Failed} :
          IF r = Failed
          THEN /\ lpc' = "thrown"
               /\ lret' = Thrown(<<"request failed">>)
               /\ UNCHANGED <<cookies, resp, safety, obs>>
          ELSE /\ StoreCookies
               /\ resp' = r
               /\ safety' = 0
               /\ lpc' = "step"
               /\ obs' = [obs EXCEPT !.form = NoForm, !.parsed = NoParsed, !.post = NoPost]
               /\ UNCHANGED lret
    /\ UNCHANGED <<ver, removeAll, attempt, jar, clientJar, exTry, adapterVars>>

\* one evaluation of while (safety++ < 20) and of the loop body up to its
\* next await, break or throw; safety is a local of the for body
ChainStep ==
    /\ lpc = "step"
    /\ IF ~(safety < SafetyLimit)
       THEN \* the while loop ends; attempt++ of the for loop
            /\ lpc' = "attempt"
            /\ attempt' = attempt + 1
            /\ safety' = 0
            /\ obs' = [obs EXCEPT !.ends = Append(obs.ends, "bound")]
            /\ UNCHANGED <<lret, exTry>>
       ELSE IF Truthy(resp.loc) /\ resp.loc[1] = "ondus://"
       THEN IF OndusError(ver, resp.loc) # ""
            THEN /\ lpc' = "thrown"
                 /\ lret' = Thrown(<<OndusError(ver, resp.loc)>>)
                 /\ safety' = safety + 1
                 /\ obs' = [obs EXCEPT !.loc = resp.loc,
                                       !.params = ParseOndusLocation(ver, resp.loc)]
                 /\ UNCHANGED <<attempt, exTry>>
            ELSE /\ lpc' = "exch_wait"
                 /\ exTry' = 1
                 /\ safety' = safety + 1
                 /\ obs' = [obs EXCEPT !.loc = resp.loc,
                                       !.params = ParseOndusLocation(ver, resp.loc),
                                       !.exReq = ExchangeRequest(ver, 1, resp.loc)]
                 /\ UNCHANGED <<attempt, lret>>
       ELSE IF Truthy(resp.loc) /\ resp.status \in {302, 303}
       THEN /\ lpc' = "chain_wait"
            /\ safety' = safety + 1
            /\ obs' = [Sent(obs) EXCEPT !.nChain = obs.nChain + 1]
            /\ UNCHANGED <<attempt, lret, exTry>>
       ELSE IF resp.status = 200 /\ resp.data.str
       THEN LET known == DetectKnownHtmlErrors(resp.data)
                out == HtmlOutcome(known, attempt)
            IN IF out = <<"break">>
               THEN /\ lpc' = "attempt"
                    /\ attempt' = attempt + 1
                    /\ safety' = 0
                    /\ obs' = [obs EXCEPT !.ends = Append(obs.ends, "restart"),
                                          !.known = known]
                    /\ UNCHANGED <<lret, exTry>>
               ELSE /\ lpc' = "thrown"
                    /\ lret' = Thrown(out)
                    /\ safety' = safety + 1
                    /\ obs' = [obs EXCEPT !.known = known]
                    /\ UNCHANGED <<attempt, exTry>>
       ELSE /\ lpc' = "thrown"
            /\ lret' = Thrown(<<"Unerwarteter Login-Flow Zustand", resp.status>>)
            /\ safety' = safety + 1
            /\ UNCHANGED <<attempt, exTry, obs>>
    /\ UNCHANGED <<ver, removeAll, resp, jar, clientJar, cookies, adapterVars>>

\* the GET of a chased redirect answers
ChainRespond ==
    /\ lpc = "chain_wait"
    /\ \E r \in ChainResponses \cup {Failed} :
          IF r = Failed
          THEN /\ lpc' = "thrown"
               /\ lret' = Thrown(<<"request failed">>)
               /\ UNCHANGED <<cookies, resp>>
          ELSE /\ StoreCookies
               /\ resp' = r
               /\ lpc' = "step"
               /\ UNCHANGED lret
    /\ UNCHANGED <<ver, removeAll, attempt, safety, jar, clientJar, exTry, obs,
                   adapterVars>>

\* _exchangeCodeForTokens: strategy exTry answers
ExchRespond ==
    /\ lpc = "exch_wait"
    /\ \E r \in ExchResponses \cup {ExchFailed} :
          IF TryOneError(r) = <<>>
          THEN /\ lpc' = "returned"
               /\ lret' = [kind |-> "return", msg |-> <<>>, access |-> r.access,
                           refresh |-> r.refresh]
               /\ obs' = [obs EXCEPT !.exErr = <<>>, !.exTok = <<r.access, r.refresh>>]
               /\ UNCHANGED exTry
          ELSE IF exTry < 3
          THEN /\ exTry' = exTry + 1
               /\ obs' = [obs EXCEPT !.exReq = ExchangeRequest(ver, exTry + 1, obs.loc),
                                     !.exErr = TryOneError(r),
                                     !.exTok = <<r.access, r.refresh>>]
               /\ UNCHANGED <<lpc, lret>>
          ELSE /\ lpc' = "thrown"
               /\ lret' = Thrown(ExchFailure(obs.exErr, TryOneError(r)))
               /\ obs' = [obs EXCEPT !.exErr = TryOneError(r),
                                     !.exTok = <<r.access, r.refresh>>]
               /\ UNCHANGED exTry
    /\ UNCHANGED <<ver, removeAll, attempt, safety, resp, jar, clientJar, cookies,
                   adapterVars>>

\* the GroheLogin object after construction, the adapter left aside
InitLogin ==
    /\ ver \in LoginVersions
    /\ removeAll \in BOOLEAN
    /\ lpc = "idle"
    /\ attempt = 0
    /\ safety = 0
    /\ resp = NoResp
    /\ jar = 0
    /\ clientJar = 0
    /\ cookies = [j \in 0..MaxAttempts |-> {}]
    /\ exTry = 0
    /\ lret = NoRet
    /\ obs = NoObs
    /\ variant = "static"
    /\ orch = "none"
    /\ running = None
    /\ accessToken = Null
    /\ refreshToken = Null
    /\ HostIdle
    /\ task = [t \in Tasks |-> IdleTask]
    /\ lastGrant = NoGrant

NextLogin ==
    \/ LoginCall
    \/ AttemptStart
    \/ StartRespond
    \/ AuthRespond
    \/ PostRespond
    \/ ChainStep
    \/ ChainRespond
    \/ ExchRespond

SpecLogin == InitLogin /\ [][NextLogin]_vars

\* lib/login.js with either CookieJar class
InitLoginCurrent == InitLogin /\ ver = "current"

\* The control flow of login() depends on the status, the Location scheme and
\* the error markers of an answer, on the presence of a form action and of
\* the tokens; it does not depend on the inputs of the form or on the query
\* of an ondus:// location, of which the runs below keep one of each.
ScopeLocs ==
    {Undef, NextUrl,
     <<"ondus://", "idp2-apigw.cloud.grohe.com", "/v3/iot/oidc/token">>,
     <<"ondus://", "idp2-apigw.cloud.grohe.com", "/v3/iot/oidc/token",
       <<"code", <<"C">>>>, <<"state", <<"S">>>>>>}

LoginScope ==
    /\ obs.form.inputs = <<>>
    /\ resp.loc \in ScopeLocs
    /\ obs.loc \in ScopeLocs

\* the steps of a login() call that has been made: every HTTP call of the
\* client returns or fails (the client has a request timeout), and the code
\* between two awaits runs to the next await
LoginStepsScoped ==
    \/ AttemptStart /\ LoginScope'
    \/ StartRespond /\ LoginScope'
    \/ AuthRespond /\ LoginScope'
    \/ PostRespond /\ LoginScope'
    \/ ChainStep /\ LoginScope'
    \/ ChainRespond /\ LoginScope'
    \/ ExchRespond /\ LoginScope'

NextLoginScoped ==
    \/ LoginCall /\ LoginScope'
    \/ LoginStepsScoped

SpecLoginFair ==
    /\ InitLoginCurrent
    /\ [][NextLoginScoped]_vars
    /\ WF_vars(LoginStepsScoped)

(***************************************************************************)
(* Claims about the token lifecycle manager (checked under SpecApi).       *)
(***************************************************************************)
Cl == task["client"]
CallEnded == Cl.pc \in {"call_done", "call_failed"}
DefaultRequest == Cl.ev = "request" /\ Cl.retry0

\* C1 as stated: a request() call issues at most two API requests, and a 401
\* on the first request is always followed by exactly one refresh() and
\* exactly one retry.
C1_Original ==
    DefaultRequest =>
        /\ Cl.nReq <= 2
        /\ (CallEnded /\ Cl.first401 => Cl.nRf401 = 1 /\ Cl.nReq = 2)

\* C1 (amended): a request() call with retry = true issues at most two API
\* requests; a 401 on the first request is followed by exactly one refresh()
\* and, when that refresh succeeds, by exactly one retry (by none when it
\* fails); a 401 on the retry is thrown to the caller with no further refresh
\* and no further request.
C1_RetryBound ==
    DefaultRequest =>
        /\ Cl.nReq <= 2
        /\ Cl.nRf401 <= 1
        /\ (Cl.nReq = 2 => Cl.first401 /\ Cl.nRf401 = 1 /\ Cl.rf401ok)
        /\ (CallEnded /\ Cl.first401 =>
                Cl.nRf401 = 1 /\ Cl.nReq = (IF Cl.rf401ok THEN 2 ELSE 1))
        /\ (Cl.retry401 =>
                /\ Cl.pc = "call_failed"
                /\ Cl.err = "HTTP_401"
                /\ Cl.nReq = 2
                /\ Cl.nRf401 = 1)

\* C1 witness: a call whose retry was answered 401 as well has ended
C1_Witness ==
    DefaultRequest /\ CallEnded /\ Cl.first401 /\ Cl.retry401 /\ Cl.nReq = 2

\* the case of C2: refresh token set, first request answered 401, retry 200
C2_Case ==
    /\ variant # "legacy"
    /\ DefaultRequest
    /\ CallEnded
    /\ Truthy(Cl.rt0)
    /\ Cl.first401
    /\ Cl.nReq = 2
    /\ Cl.lastStatus = 200

\* C2 as stated: in any manager state with a refresh token set, 401 then 200
\* makes request() return the 200 response after exactly one refresh() call
\* and exactly one retry.
C2_Original ==
    C2_Case => Cl.pc = "call_done" /\ Cl.nRf = 1 /\ Cl.nReq = 2

\* C2 (amended): 401 then 200 makes request() return the 200 response after
\* exactly one retry and exactly one refresh() call following the 401; that is
\* the call's only refresh() when the manager held an access token at the
\* call, and its second when it held none (request() then refreshes once
\* before the first request).
C2_RefreshOnceRetryOnce ==
    C2_Case =>
        /\ Cl.pc = "call_done"
        /\ Cl.nReq = 2
        /\ Cl.nRf401 = 1
        /\ Cl.nRf = (IF Truthy(Cl.at0) THEN 1 ELSE 2)

\* C2 witness: such a call has returned, made with an access token held
C2_Witness == C2_Case /\ Truthy(Cl.at0) /\ Cl.pc = "call_done" /\ Cl.nRf = 1

\* C3: a refresh answered 400 or 401 fails with INVALID_REFRESH_TOKEN and
\* leaves accessToken and refreshToken as they were.
C3_InvalidRefreshToken ==
    (variant # "legacy" /\ Cl.pc = "call_failed" /\ Cl.rfStatus \in {400, 401}) =>
        /\ Cl.err = "INVALID_REFRESH_TOKEN"
        /\ <<accessToken, refreshToken>> = Cl.pre
        /\ (Cl.ev = "refresh" => accessToken = Cl.at0 /\ refreshToken = Cl.rt0)

\* C3 witness: refresh() was answered 400 while an access token was held
C3_Witness ==
    /\ variant # "legacy"
    /\ Cl.ev = "refresh"
    /\ Cl.pc = "call_failed"
    /\ Cl.rfStatus = 400
    /\ Truthy(accessToken)

RefreshSucceeded == Cl.rfStatus = 200 /\ Truthy(Cl.rfAccess)

C5_BearerIsLatest ==
    Cl.pc = "rq_wait" =>
        /\ (Cl.sendGrant.by = "refresh" => Cl.hdr = Cl.sendGrant.tok)
        /\ (Cl.nReq = 2 => Cl.hdr = Cl.rfAccess /\ Cl.sendGrant.by = "refresh")

\* C5 witness: a retry is in flight with a token other than the first one
C5_Witness ==
    Cl.pc = "rq_wait" /\ Cl.nReq = 2 /\ Cl.hdr # Cl.hdr1 /\ Truthy(Cl.hdr1)

(***************************************************************************)
(* Claims about the orchestrator (checked under Spec).                     *)
(***************************************************************************)
Rd == task["ready"]

\* onReady has returned, one way or the other
StartupOver == Rd.pc \in {"rd_finished", "rd_failed"}

\* the handler run t has completed after a refresh() of its request() rotated
\* the refresh token
RotatedIn(t) == task[t].pc = "done" /\ task[t].rotated

\* C6: whenever refresh() succeeds with a rotated refresh token B, the
\* persisted refresh token equals B once the operation that invoked refresh()
\* has completed; here for the refreshes request() performs in a scheduled
\* poll or a user write, with the startup sequence over.
C6_RotationPersisted ==
    \A t \in {"poll", "write"} :
        (StartupOver /\ RotatedIn(t)) => Strip(native.refreshToken) = refreshToken

\* the stored-token refresh of startup succeeded and onReady is about to set
\* loginStep 'ready', no timer tick or state change having been delivered
S1Succeeded ==
    /\ orch = "full"
    /\ Rd.pc = "rd_ready"
    /\ Rd.s1 = "ok"
    /\ fired = 0

\* C7: at startup, when refresh() with the persisted refresh token succeeds,
\* the (possibly rotated) refresh token is persisted, info.tokenValid is true
\* and no HTML login was run before loginStep 'ready'.
C7_StoredTokenStartup ==
    S1Succeeded =>
        /\ Strip(native.refreshToken) = Rd.s1ret
        /\ info.tokenValid
        /\ Rd.nLogin = 0

\* the web login of startup succeeded and onReady is about to set loginStep
\* 'ready', no timer tick or state change having been delivered
LoginSucceeded ==
    /\ orch = "full"
    /\ Rd.pc = "rd_ready"
    /\ Rd.login # <<Undef, Undef>>
    /\ fired = 0

\* C8: when startup ran the web login and it succeeded, the manager holds the
\* login's access and refresh tokens and the persisted refresh token equals
\* the login's refresh token, for every value of keepPassword.
C8_LoginTokensKept ==
    LoginSucceeded =>
        /\ accessToken = Rd.login[1]
        /\ refreshToken = Rd.login[2]
        /\ native.refreshToken = Rd.login[2]

\* the startup sequence of the web-login orchestrator has failed
StartupFailed == orch = "full" /\ Rd.pc = "rd_failed"

\* C9: a failure of the startup sequence is absorbed by onReady: from then on
\* info.connection and info.tokenValid are false, info.tokenError holds the
\* diagnostic, info.loginStep is 'error', no poll timer runs and pollDevices
\* is not invoked.
C9_StartupFailureAbsorbed ==
    StartupFailed =>
        /\ ~info.connection
        /\ ~info.tokenValid
        /\ info.tokenError # "" /\ info.tokenError = Rd.err
        /\ info.loginStep = "error"
        /\ ~pollTimer
        /\ Rd.nPoll = 0
        /\ task["poll"].pc = "idle"

\* startup failed in the web login and a state change was handled afterwards
C9_Witness ==
    /\ StartupFailed
    /\ Rd.err = "LOGIN_FAILED"
    /\ task["write"].pc = "done"
    /\ running = "write"

\* a configuration record holds an access token in one of its fields
CarriesAccess(rec) ==
    \E k \in {"email", "password", "refreshToken"} :
        Range(rec[k]) \cap Range(AccessSyms) # {}

\* C10: the persisted configuration never contains the access token, and a
\* write to the persistence collaborator changes only refreshToken or
\* password and carries no access token.
C10_AccessTokenNeverPersisted ==
    /\ ~CarriesAccess(native)
    /\ native.email = config.email
    /\ native.keepPassword = config.keepPassword
    /\ \A t \in Handlers :
          task[t].pc = "w_wait" =>
              /\ ~CarriesAccess(task[t].pay)
              /\ task[t].pay.email = config.email
              /\ task[t].pay.keepPassword = config.keepPassword

\* the login's refresh token is being written while an access token is held
C10_Witness ==
    /\ Rd.pc = "w_wait"
    /\ Rd.login # <<Undef, Undef>>
    /\ Rd.pay.refreshToken = Strip(Rd.login[2])
    /\ accessToken = Rd.login[1]

\* persistRefreshTokenIfChanged / refreshAndPersistToken has returned to onReady
PersistReturned == Rd.pc \in {"rd_s1_valid", "rd_pwclear", "rt_valid"}

\* the token handed to the persisting function whose return address is ret
NewToken(ret) == IF ret = "rd_pwclear" THEN Rd.login[2] ELSE Rd.s1ret

\* the new token is empty or equals the stored one after whitespace normalization
SameAsStored(tok) ==
    ~Truthy(Strip(tok)) \/ Strip(tok) = Strip(native.refreshToken)

\* C11: persistRefreshTokenIfChanged / refreshAndPersistToken perform no write
\* when the new token is empty or equals the stored token after whitespace
\* normalization, and the persisted configuration is then unchanged.
C11_WriteOnlyWhenChanged ==
    /\ (Rd.pc = "w_wait" /\ Rd.wRet \in {"rd_s1_valid", "rd_pwclear", "rt_valid"}) =>
            ~SameAsStored(NewToken(Rd.wRet))
    /\ (PersistReturned /\ Rd.nW = 0) => native = config

\* C11 restricted to persistRefreshTokenIfChanged (web-login orchestrator)
C11_IfChangedOnly == orch = "full" => C11_WriteOnlyWhenChanged

\* C11 restricted to the managers that normalize the token they are given
C11_Normalizing == variant # "plain" => C11_WriteOnlyWhenChanged

\* a refresh request of handler t is in flight
RefreshInFlight(t) == task[t].pc = "rf_wait"

\* C12: under every interleaving of startup, pollDevices and onStateChange at
\* most one refresh() call is in flight against the GroheApi instance, so no
\* two refresh requests carry the same refresh token concurrently.
C12_SingleRefreshInFlight ==
    \A t, u \in Handlers :
        (t # u /\ RefreshInFlight(t) /\ RefreshInFlight(u)) => task[t].rt # task[u].rt

\* C13: once refresh() has failed with INVALID_REFRESH_TOKEN for a refresh
\* token, no further refresh request is sent with that token until restart
\* or re-authentication.
C13_InvalidTokenTerminal ==
    [][\A t \in Handlers :
          (~RefreshInFlight(t) /\ task'[t].pc = "rf_wait" /\ Rd.inv # Undef)
              => task'[t].rt # Rd.inv]_vars

\* login() has ended by throwing
LoginThrown == lpc = "thrown" /\ lret.kind = "throw"

\* C14: one login() call runs the flow START..REDIRECT_CHAIN at most 3 times;
\* RESTART_COOKIE_NOT_FOUND detected in the redirect chain of the third
\* attempt is a fatal error, not a fourth attempt.
C14_AtMostThreeAttempts ==
    /\ obs.nStart <= MaxAttempts
    /\ (obs.nStart = MaxAttempts /\ obs.known = "RESTART_COOKIE_NOT_FOUND") =>
            (LoginThrown /\ attempt = MaxAttempts)

C14_Witness ==
    /\ obs.nStart = MaxAttempts
    /\ obs.known = "RESTART_COOKIE_NOT_FOUND"
    /\ obs.ends = <<"restart", "restart">>
    /\ LoginThrown

\* C15: attempt N+1 is started only if attempt N ended by detecting
\* RESTART_COOKIE_NOT_FOUND in the redirect chain; every other terminal
\* condition of an attempt ends login() with an error.
C15_RetryOnlyOnRestart ==
    \A i \in DOMAIN obs.ends : obs.ends[i] = "restart"

\* C16: when every response of the redirect chain is a 302/303 with a new
\* non-ondus Location, login() fails with a fatal error after exactly 20
\* chased redirects (20 chain GETs for the whole call).
C16_RedirectBoundFatal ==
    [][(lpc = "step" /\ ~(safety < SafetyLimit) /\ obs.nStart = 1) =>
            (lpc' = "thrown" /\ lret'.kind = "throw" /\ obs.nChain = SafetyLimit)]_vars

\* C17: for every HTML body containing 'Invalid username or password',
\* whatever else it contains, detection yields INVALID_CREDENTIALS and
\* login() starts no other attempt because of that page.
C17_InvalidCredentialsDetected ==
    (obs.known # "" /\ "Invalid username or password" \in resp.data.has) =>
        (obs.known = "INVALID_CREDENTIALS" /\ LoginThrown)

\* C18: whenever the kind detected on a 200-HTML response of the redirect
\* chain is MFA_REQUIRED or INVALID_CREDENTIALS, login() fails on that attempt
\* (1, 2 or 3) and issues no further HTTP request.
C18_FatalKinds ==
    [][/\ lpc # "thrown"
       /\ (lpc = "step" /\ obs'.known \in {"MFA_REQUIRED", "INVALID_CREDENTIALS"}) =>
            /\ lpc' = "thrown"
            /\ lret'.kind = "throw"
            /\ obs'.nHttp = obs.nHttp
            /\ exTry' = exTry
            /\ attempt' = attempt
            /\ obs'.nStart = obs.nStart]_vars

C18_Witness ==
    /\ LoginThrown
    /\ obs.known = "INVALID_CREDENTIALS"
    /\ obs.nStart = 2

\* an HTTP request of the login flow is awaiting its answer
LoginRequestInFlight == lpc \in {"start_wait", "auth_wait", "post_wait", "chain_wait", "exch_wait"}

\* C19: when an attempt of login() issues its first request the cookie store
\* the client uses holds no cookie of an earlier attempt (it is empty), on
\* the removeAllCookies path and on the jar-replacement path.
C19_FreshJar ==
    /\ obs.first = {}
    /\ LoginRequestInFlight => (clientJar = jar /\ cookies[clientJar] \subseteq {attempt})

C19_Witness ==
    /\ ~removeAll
    /\ lpc = "start_wait"
    /\ obs.nStart = 2
    /\ cookies[1] = {1}

\* the parameters parseOndusLocation returned, by key
ParsedParams == IF ver = "current" THEN obs.params.params ELSE obs.params

\* ondus://host/path?code=C&state=S&session_state=X, in any order
WellFormed(location) ==
    {"code", "state", "session_state"} \subseteq
        {Query(location)[i][1] : i \in DOMAIN Query(location)}

\* C20: for a well-formed ondus:// location parseOndusLocation yields code C
\* and state S and preserves every other query parameter, and the https URL
\* handed to token exchange has the location's host, path and query
\* parameters: only the scheme differs.
C20_OndusRoundTrip ==
    (lpc = "exch_wait" /\ exTry = 1 /\ WellFormed(obs.loc)) =>
        /\ \A i \in DOMAIN Query(obs.loc) :
              /\ Query(obs.loc)[i][1] \in DOMAIN ParsedParams
              /\ ParsedParams[Query(obs.loc)[i][1]] = Query(obs.loc)[i][2]
        /\ obs.exReq.url = <<"https://">> \o Tail(obs.loc)

\* C20 for the current lib/login.js alone
C20_Current == ver = "current" => C20_OndusRoundTrip

\* the ondus:// location under examination lacks code or state
LacksCodeOrState(location) ==
    ~({"code", "state"} \subseteq {Query(location)[i][1] : i \in DOMAIN Query(location)})

\* the step that examines a terminal ondus:// redirect without code or state
\* throws, sends no token-exchange request and starts no attempt
MalformedOndusStep ==
    (lpc = "step" /\ safety < SafetyLimit /\ Truthy(resp.loc) /\ resp.loc[1] = "ondus://"
        /\ LacksCodeOrState(resp.loc)) =>
    (lpc' = "thrown" /\ lret'.kind = "throw" /\ exTry' = exTry
        /\ obs'.exReq = obs.exReq /\ attempt' = attempt)

\* C21: a terminal ondus:// redirect without code or state makes login() fail
\* fatally: no token-exchange request is sent and no other attempt is started.
C21_MalformedOndusFatal == [][MalformedOndusStep]_vars

\* C21 for the older GroheLogin alone
C21_Older == [][ver = "older" => MalformedOndusStep]_vars

\* the strategy a token-exchange request belongs to: its method and encoding
StrategyOf(req) ==
    IF req.method = "GET" THEN 1
    ELSE IF req.body[1] = "json" THEN 2
    ELSE 3

\* C22: token exchange tries GET, POST JSON, POST form in this order; strategy
\* k+1 is tried only if strategy k failed (non-200 status, transport error, or
\* a 200 response without access_token or refresh_token), and no request is
\* issued after the first strategy that yields both tokens, whose token pair
\* is the result of login().
C22_ExchangeOrder ==
    [][/\ (lpc # "exch_wait" /\ lpc' = "exch_wait") =>
              (exTry' = 1 /\ StrategyOf(obs'.exReq) = 1)
       /\ (lpc = "exch_wait" /\ obs'.exReq # obs.exReq) =>
              /\ exTry' = exTry + 1
              /\ StrategyOf(obs'.exReq) = exTry + 1
              /\ lpc' = "exch_wait"
              /\ \/ obs'.exErr = <<"request failed">>
                 \/ obs'.exErr = <<"status", 204>>
                 \/ /\ obs'.exErr = <<"missing access_token/refresh_token">>
                    /\ (~Truthy(obs'.exTok[1]) \/ ~Truthy(obs'.exTok[2]))
       /\ (lpc = "exch_wait" /\ Truthy(obs'.exTok[1]) /\ Truthy(obs'.exTok[2])
              /\ obs'.exErr \notin {<<"request failed">>, <<"status", 204>>}) =>
              /\ lpc' = "returned"
              /\ lret'.kind = "return"
              /\ <<lret'.access, lret'.refresh>> = obs'.exTok
              /\ obs'.exReq = obs.exReq
              /\ exTry' = exTry
       /\ (lpc = "exch_wait" /\ lpc' = "returned") =>
              /\ Truthy(obs'.exTok[1]) /\ Truthy(obs'.exTok[2])
              /\ <<lret'.access, lret'.refresh>> = obs'.exTok
       /\ lpc # "returned"]_vars

C22_Witness ==
    /\ lpc = "returned"
    /\ exTry = 3
    /\ Truthy(lret.access) /\ Truthy(lret.refresh)

\* C23: when all three token-exchange strategies fail, login() fails with the
\* failure of the last strategy (POST form), and no other attempt and no
\* redirect-chain request follows.
C23_LastStrategyError ==
    [][/\ (lpc = "exch_wait" /\ exTry = 3 /\ obs'.exErr # <<>>) =>
              /\ lpc' = "thrown"
              /\ lret' = Thrown(obs'.exErr)
              /\ StrategyOf(obs.exReq) = 3
              /\ attempt' = attempt
              /\ obs'.nStart = obs.nStart
              /\ obs'.nChain = obs.nChain
              /\ obs'.nHttp = obs.nHttp
       /\ lpc # "thrown"]_vars

C23_Witness ==
    /\ LoginThrown
    /\ exTry = 3
    /\ lret.msg = <<"status", 204>>
    /\ obs.exErr = <<"status", 204>>

\* C24: when the refresh endpoint answers with a success status but without
\* access_token, refresh() fails with kind TOKEN_RESPONSE_INVALID as the
\* caller observes it, and accessToken and refreshToken are unchanged.
C24_TokenResponseInvalid ==
    (variant # "legacy" /\ Cl.ev = "refresh" /\ Cl.pc = "call_failed"
        /\ Cl.rfStatus = 200 /\ ~Truthy(Cl.rfAccess)) =>
        /\ Cl.err = "TOKEN_RESPONSE_INVALID"
        /\ accessToken = Cl.at0
        /\ refreshToken = Cl.rt0

\* C25: refresh() called while no refresh token is set fails with kind
\* NO_REFRESH_TOKEN, sends no request to the identity provider and changes no
\* manager state.
C25_NoRefreshToken ==
    (variant # "legacy" /\ Cl.ev = "refresh" /\ ~Truthy(Cl.rt0)) =>
        /\ Cl.pc \in {"rf_entry", "call_failed"}
        /\ Cl.rfStatus = -1
        /\ accessToken = Cl.at0
        /\ refreshToken = Cl.rt0
        /\ Cl.pc = "call_failed" => Cl.err = "NO_REFRESH_TOKEN"

C25_Witness ==
    /\ variant \in {"static", "claims"}
    /\ Cl.ev = "refresh"
    /\ Cl.pc = "call_failed"
    /\ ~Truthy(Cl.rt0)
    /\ Truthy(accessToken)

\* the credentials POST is in flight: _parseLoginForm has returned
FormParsed == lpc = "post_wait"

\* the inputs of the form under study and the names that occur among them
Inp == obs.form.inputs
InputNames == {Inp[i].name : i \in {j \in DOMAIN Inp : Truthy(Inp[j].name)}}

IsTextInput(i) == Inp[i].type \in {<<"text">>, <<"email">>}
IsPasswordInput(i) == Inp[i].type \in {<<"password">>, <<"Password">>}

\* u is the first of username, email, usernameOrEmail among the named inputs,
\* else the name of the first text/email input, else 'username'
UserFieldRule(u) ==
    IF <<"username">> \in InputNames THEN u = <<"username">>
    ELSE IF <<"email">> \in InputNames THEN u = <<"email">>
    ELSE IF <<"usernameOrEmail">> \in InputNames THEN u = <<"usernameOrEmail">>
    ELSE IF \E i \in DOMAIN Inp :
               IsTextInput(i) /\ Truthy(Inp[i].name) /\ \A j \in 1..(i - 1) : ~IsTextInput(j)
    THEN \E i \in DOMAIN Inp :
               /\ IsTextInput(i) /\ \A j \in 1..(i - 1) : ~IsTextInput(j)
               /\ u = Inp[i].name
    ELSE u = <<"username">>

\* C26 as stated: the password field is the name of the first input of type
\* password, else 'password'
C26_Original ==
    FormParsed =>
        /\ UserFieldRule(obs.parsed.userField)
        /\ IF \E i \in DOMAIN Inp :
                 IsPasswordInput(i) /\ Truthy(Inp[i].name)
                 /\ \A j \in 1..(i - 1) : ~IsPasswordInput(j)
           THEN \E i \in DOMAIN Inp :
                 /\ IsPasswordInput(i) /\ \A j \in 1..(i - 1) : ~IsPasswordInput(j)
                 /\ obs.parsed.passField = Inp[i].name
           ELSE obs.parsed.passField = <<"password">>

\* C26: _parseLoginForm takes as username field the first of username, email,
\* usernameOrEmail present among the form's named inputs, else the name of the
\* first text/email input, else 'username'; as password field the name of the
\* first input of type password that has a name, else 'password'.
C26_FieldDetection ==
    FormParsed =>
        /\ UserFieldRule(obs.parsed.userField)
        /\ IF \E i \in DOMAIN Inp : IsPasswordInput(i) /\ Truthy(Inp[i].name)
           THEN \E i \in DOMAIN Inp :
                 /\ IsPasswordInput(i) /\ Truthy(Inp[i].name)
                 /\ \A j \in 1..(i - 1) : ~(IsPasswordInput(j) /\ Truthy(Inp[j].name))
                 /\ obs.parsed.passField = Inp[i].name
           ELSE obs.parsed.passField = <<"password">>

C26_Witness ==
    /\ FormParsed
    /\ Len(Inp) = 3
    /\ Inp[1].name = <<"email">>
    /\ Inp[2].name = <<"username">>
    /\ Inp[3].name = <<"pw">>
    /\ obs.parsed.userField = <<"username">>
    /\ obs.parsed.passField = <<"pw">>

\* the value attribute of the last input named n, '' when it has none
DefaultValue(n) ==
    LET i == Last({j \in DOMAIN Inp : Inp[j].name = n})
    IN IF Inp[i].value = Undef THEN <<>> ELSE Inp[i].value

\* C27: the field map of the authenticate POST always has a credentialId key,
\* with the form's value when the form has such an input and '' when not; all
\* other named inputs are submitted with their default values, the username and
\* password fields overwritten by the supplied credentials.
C27_SubmittedFields ==
    FormParsed =>
        LET f == obs.post.fields
            u == obs.parsed.userField
            w == obs.parsed.passField
        IN /\ <<"credentialId">> \in DOMAIN f
           /\ f[<<"credentialId">>] =
                 IF <<"credentialId">> \in InputNames
                 THEN DefaultValue(<<"credentialId">>) ELSE <<>>
           /\ DOMAIN f = InputNames \cup {<<"credentialId">>, u, w}
           /\ \A n \in InputNames \ {u, w} : f[n] = DefaultValue(n)
           /\ f[u] = Email
           /\ f[w] = Password

C27_Witness ==
    /\ FormParsed
    /\ Len(Inp) = 2
    /\ Inp[1].name = <<"username">>
    /\ Inp[2].name = <<"password">>
    /\ obs.post.fields[<<"credentialId">>] = <<>>

\* the step in which the auth page arrives with a first form that has no
\* action attribute
ActionlessFormStep ==
    /\ lpc = "auth_wait"
    /\ obs'.authResp # NoResp
    /\ obs'.authResp.status = 200 /\ obs'.authResp.data = Html({})
    /\ ~Truthy(obs'.form.action)

MissingAction == <<"Login-Form action nicht gefunden">>

\* C28: if the auth page's first form has no action attribute login() fails
\* fatally: no authenticate POST with the credentials is sent and no other
\* attempt is started.
C28_MissingActionFatal ==
    [][/\ ActionlessFormStep =>
            /\ lpc' = "thrown"
            /\ lret' = Thrown(MissingAction)
            /\ obs'.post = NoPost
            /\ obs'.nHttp = obs.nHttp
       /\ (LoginThrown /\ lret.msg = MissingAction) =>
            /\ lpc' = "thrown"
            /\ obs'.nHttp = obs.nHttp
            /\ obs'.nStart = obs.nStart
            /\ attempt' = attempt]_vars

C28_Witness ==
    /\ LoginThrown
    /\ lret.msg = MissingAction
    /\ obs.form.action = Undef
    /\ Len(obs.form.inputs) = 2
    /\ obs.form.inputs[1].name = <<"username">>
    /\ obs.form.inputs[2].name = <<"password">>
    /\ obs.nHttp = 2
    /\ obs.post = NoPost

\* what START and AUTH_PAGE of the current attempt answered
GoodStart == obs.startResp.status = 302 /\ obs.startResp.loc # Undef /\ obs.startResp.loc # <<>>
GoodAuth ==
    /\ obs.authResp.status = 200
    /\ obs.authResp.data.str
    /\ obs.authResp.data.has \cap Phrases = {}

\* C29: in every attempt the credentials POST is sent only after START answered
\* 302 with a Location and AUTH_PAGE answered 200 with a string body without
\* any known error marker; when START or AUTH_PAGE answers otherwise login()
\* aborts before the credentials of that attempt are sent.
C29_PagesBeforeCredentials ==
    /\ lpc = "post_wait" => (GoodStart /\ GoodAuth /\ obs.nHttp = 3)
    /\ obs.post # NoPost => (GoodStart /\ GoodAuth)
    /\ (obs.startResp # NoResp /\ ~GoodStart) =>
            (LoginThrown /\ obs.nHttp = 1 /\ obs.authResp = NoResp /\ obs.post = NoPost)
    /\ (obs.authResp # NoResp /\ ~GoodAuth) =>
            (LoginThrown /\ obs.nHttp = 2 /\ obs.post = NoPost)

C29_Witness ==
    /\ LoginThrown
    /\ obs.nStart = 2
    /\ GoodStart
    /\ obs.authResp.status = 200
    /\ obs.authResp.data = Html({"Restart login cookie not found"})
    /\ obs.nHttp = 2

\* the errors of a poll that the next poll may not meet again
TransientErrors == {"TOKEN_REFRESH_FAILED", "NETWORK"}

Poll == task["poll"]

\* C30: when a scheduled poll fails with TOKEN_REFRESH_FAILED or a transport
\* failure, info.connection is set to false, pollDevices() returns without
\* another request, the poll timer stays set and nothing is requested until
\* the timer fires again; a scheduled poll that then succeeds sets
\* info.connection to true.
C30_TransientPollFailure ==
    [][/\ (Poll.pc = "pd_catch" /\ Poll.err \in TransientErrors) =>
            /\ info'.connection = FALSE
            /\ pollTimer'
            /\ Poll'.pc = "done"
            /\ Poll'.nReq = Poll.nReq
            /\ Poll'.nPoll = Poll.nPoll
       /\ (Poll.pc = "done" /\ Poll.err \in TransientErrors) =>
            /\ Poll'.pc = "idle"
            /\ Poll'.prev = Poll.err
            /\ pollTimer' /\ info'.connection = FALSE
       /\ (Poll.pc = "idle" /\ Poll.prev \in TransientErrors) =>
            /\ pollTimer /\ info.connection = FALSE
            /\ Poll'.pc # "idle" => (fired' = fired + 1 /\ Poll'.pc = "pd_entry")
       /\ (Poll.pc = "pd_ok" /\ Poll.prev \in TransientErrors) =>
            (info'.connection = TRUE /\ pollTimer')]_vars

C30_Witness ==
    /\ fired = 2
    /\ Poll.prev = "TOKEN_REFRESH_FAILED"
    /\ Poll.pc = "done"
    /\ Poll.err = ""
    /\ Poll.nReq = 1
    /\ info.connection = TRUE
    /\ pollTimer

Client == task["client"]

\* C31: request() never sends a vendor API request while the manager holds no
\* access token: without one it awaits refresh() first, and when that
\* refresh fails no API request is sent and the caller receives the refresh
\* error.
C31_NoRequestWithoutToken ==
    /\ Client.pc = "rq_wait" => (Truthy(accessToken) /\ Client.hdr = accessToken)
    /\ (Client.ev = "request" /\ ~Truthy(Client.at0) /\ Client.pc = "call_failed"
            /\ Client.nReq = 0) =>
            /\ Client.nRf = 1
            /\ Client.lastStatus = -1
            /\ Client.err = IF Client.rfStatus = -1
                            THEN RefreshPrecheck(variant, Client.held)
                            ELSE RefreshError(variant, Client.rfStatus, Client.rfAccess)
            /\ Client.err # ""

\* the same for the managers that check the token before the request
C31_Checking == variant # "legacy" => C31_NoRequestWithoutToken

\* a refresh() call of the client has thrown
RefreshCallFailed == Client.ev = "refresh" /\ Client.pc = "call_failed"

\* C32: every failure of refresh() (of the managers that tag their errors)
\* reaches the caller with a code of ErrorCodes; for the claim-deriving
\* manager this includes a refresh token whose payload cannot be decoded.
C32_TaggedErrors ==
    (variant # "legacy" /\ RefreshCallFailed) => Client.err \in ErrorCodes

\* the same for the managers that do not decode the token
C32_NonDeriving ==
    (variant \in {"static", "plain"} /\ RefreshCallFailed) => Client.err \in ErrorCodes

LoginEnded == lpc \in {"returned", "thrown"}

\* the requests of one attempt: 2 page GETs, 1 POST, SafetyLimit chain GETs
MaxAttemptRequests == 3 + SafetyLimit

LoginBounds ==
    /\ obs.nStart <= MaxAttempts
    /\ obs.nHttp <= MaxAttemptRequests
    /\ obs.nChain <= SafetyLimit
    /\ exTry <= 3
    /\ lpc = "returned" =>
          /\ lret.kind = "return"
          /\ Truthy(lret.access) /\ Truthy(lret.refresh)
    /\ lpc = "thrown" => lret.kind = "throw"

\* C33: login() terminates whatever the identity provider answers: it returns
\* a pair with both access_token and refresh_token or throws, after at most 3
\* attempts of at most 23 requests each and at most 3 token-exchange requests.
C33_LoginTerminates ==
    /\ []LoginBounds
    /\ (lpc # "idle") ~> LoginEnded

C33_Witness ==
    /\ lpc = "thrown"
    /\ lret.msg = <<"Login fehlgeschlagen (nach 3 Versuchen).">>
    /\ obs.nStart = 3
    /\ obs.nHttp = 23
    /\ obs.nChain = 20
    /\ obs.ends = <<"bound", "bound", "bound">>

Ready == task["ready"]

\* C34: the stored password changes only by being cleared, after a web login
\* of this start returned its tokens, with keepPassword false; it stays as it
\* is when the stored refresh token was accepted, when keepPassword is true
\* and when the login failed.
C34_PasswordClearedOnlyAfterLogin ==
    [][native'.password # native.password =>
          /\ native'.password = <<>>
          /\ orch = "full"
          /\ ~config.keepPassword
          /\ Ready.nLogin = 1
          /\ Truthy(Ready.login[1]) /\ Truthy(Ready.login[2])
          /\ Ready.s1 # "ok"]_vars

C34_Witness ==
    /\ orch = "full"
    /\ config.password = <<"p">>
    /\ ~config.keepPassword
    /\ native.password = <<>>
    /\ info.loginStep = "ready"
    /\ info.tokenValid

\* a request() call of the client has thrown because the refresh() it made
\* after a 401 threw
RefreshAfter401Failed ==
    /\ Client.ev = "request"
    /\ Client.pc = "call_failed"
    /\ Client.nRf401 = 1
    /\ ~Client.rf401ok

\* the caller gets the error of that refresh and no retry was sent
RefreshErrorReceived ==
    /\ Client.nReq = 1
    /\ Client.lastStatus = 401
    /\ Client.err # HttpError(401) \/ variant = "legacy"
    /\ IF variant = "legacy"
       THEN Client.err = HttpError(Client.rfStatus)
       ELSE Client.err \in ErrorCodes \cup {"SyntaxError"}

\* C35 as stated: the tokens are those held before the request() call
C35_Original ==
    RefreshAfter401Failed =>
        /\ RefreshErrorReceived
        /\ accessToken = Client.at0
        /\ refreshToken = Client.rt0

\* C35: when the refresh() that request() makes after a 401 fails, no retry is
\* sent, the caller receives the refresh error, and the manager holds the
\* tokens it held when the rejected request was sent; these are the tokens
\* held before the request() call when an access token was held then.
C35_FailedRefreshAfter401 ==
    RefreshAfter401Failed =>
        /\ RefreshErrorReceived
        /\ accessToken = Client.hdr1
        /\ refreshToken = Client.held
        /\ (Truthy(Client.at0) \/ variant = "legacy") =>
              (accessToken = Client.at0 /\ refreshToken = Client.rt0)

C35_Witness ==
    /\ RefreshAfter401Failed
    /\ variant = "static"
    /\ Client.at0 = <<"a">>
    /\ Client.err = "INVALID_REFRESH_TOKEN"
    /\ accessToken = <<"a">>

\* the step in which onReady sets loginStep 'ready' and connection true
SetsReady ==
    /\ info.loginStep # "ready"
    /\ info'.loginStep = "ready"
    /\ info'.connection

\* C36: whenever onReady sets info.loginStep to 'ready' and info.connection
\* to true, the manager holds a non-empty access token and info.tokenValid
\* is true.
C36_ReadyImpliesValid ==
    [][SetsReady => (Truthy(accessToken') /\ info'.tokenValid)]_vars

\* the half of C36 about the access token
C36_AccessTokenHeld == [][SetsReady => Truthy(accessToken')]_vars

WriteTask == task["write"]

\* onStateChange is inside api.request() or past it
WriteRequesting ==
    WriteTask.pc \in {"rq_entry", "rq_attach", "rq_wait", "rq_retry", "rf_entry",
                      "rf_wait", "sc_ok", "sc_catch"}

\* C37: onStateChange sends no vendor API request for a null state, for a
\* state with ack = true, or while the api is null: it returns at once, so a
\* state the adapter acknowledged itself does not lead to another request.
C37_IgnoredStateChanges ==
    /\ [](WriteRequesting => (WriteTask.ev = "user" /\ apiSet))
    /\ [][(WriteTask.pc = "sc_entry" /\ (WriteTask.ev \in {"null", "acked"} \/ ~apiSet)) =>
             /\ WriteTask'.pc = "done"
             /\ WriteTask'.nReq = 0
             /\ ~WriteTask'.acked
             /\ UNCHANGED <<accessToken, refreshToken, info, native>>]_vars

C37_Witness ==
    /\ WriteTask.pc = "done"
    /\ WriteTask.ev = "acked"
    /\ WriteTask.kind = "setValve"
    /\ apiSet
    /\ Truthy(accessToken)
    /\ WriteTask.nReq = 0

\* the state change under way is a user write that asks for an action
TriggersAction ==
    /\ WriteTask.ev = "user"
    /\ apiSet
    /\ WriteTask.kind = "setValve" \/ (WriteTask.kind = "button" /\ WriteTask.val)

\* C38: for a user write that triggers an action the state is acknowledged,
\* and a button reset to false, only after the vendor API request succeeded;
\* when the request fails the state stays unacknowledged and the handler
\* completes without throwing.
C38_AckAfterSuccess ==
    /\ []((orch = "full" /\ TriggersAction /\ WriteTask.acked) =>
             /\ WriteTask.pc = "done"
             /\ WriteTask.nReq >= 1
             /\ WriteTask.err = ""
             /\ WriteTask.reset = (WriteTask.kind = "button"))
    /\ []((orch = "full" /\ WriteTask.reset) => WriteTask.acked)
    /\ [][(orch = "full" /\ TriggersAction /\ WriteTask.pc = "sc_catch") =>
             /\ WriteTask'.pc = "done"
             /\ ~WriteTask'.acked
             /\ ~WriteTask'.reset
             /\ WriteTask'.err # ""]_vars
    /\ [][(orch = "full" /\ TriggersAction /\ WriteTask.pc = "sc_ok") =>
             /\ WriteTask'.pc = "done"
             /\ WriteTask'.acked]_vars

C38_Witness ==
    /\ orch = "full"
    /\ TriggersAction
    /\ WriteTask.kind = "button"
    /\ WriteTask.pc = "done"
    /\ WriteTask.nReq = 1
    /\ WriteTask.err = "NETWORK"
    /\ ~WriteTask.acked

\* a handler sends a request to the vendor API or to the refresh endpoint
Sends(t) ==
    /\ task'[t].pc \in {"rq_wait", "rf_wait"}
    /\ task[t].pc \notin {"rq_wait", "rf_wait"}

\* tokenInvalid changes only in the catch of the refresh-token-only onReady,
\* to true, for an error coded INVALID_REFRESH_TOKEN
TokenInvalidSetOnlyAtStartup ==
    tokenInvalid' # tokenInvalid =>
        /\ orch = "rtonly"
        /\ tokenInvalid'
        /\ Ready.pc = "rt_catch"
        /\ Ready.err = "INVALID_REFRESH_TOKEN"
        /\ Ready'.pc = "rd_failed"

EntryIgnored(t) ==
    (tokenInvalid /\ task[t].pc \in {"pd_entry", "sc_entry"} /\ task'[t] # task[t]) =>
        /\ task'[t].pc = "done"
        /\ task'[t].nReq = 0
        /\ task'[t].nRf = 0
        /\ ~task'[t].acked

====
